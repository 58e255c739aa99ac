------------------------ MODULE RunnerServiceProofs ------------------------
(***************************************************************************)
(* Proofs about the service for every number of generations, operations,   *)
(* requests, gates, messages, files and faults.                            *)
(*                                                                         *)
(* Runner: IInv is inductive whatever races are admitted; it says which    *)
(* receipts, launchers and operations go together, and that a stop passes  *)
(* its last look with everything down. That work is spared needs ISpare    *)
(* too: who can be near a job at each step of an operation. Its key is     *)
(* that the update lock lets no runner begin to claim (CalmStep), so the   *)
(* set of runners at a job only shrinks while an operation runs; a wait    *)
(* that runs out ends the operation, and with it that bound, hence the     *)
(* hypothesis on Windows.                                                  *)
(*                                                                         *)
(* Requests: UpdateInv says that an updater nobody gave up is the gate an  *)
(* unfinished request names, that a worker at work works for the request   *)
(* in the file unless that was withdrawn, and that what a call has read is *)
(* no further than the file, so that a stale read replaces nothing but     *)
(* what was finished with, or old, or whose outcome came since.            *)
(*                                                                         *)
(* Files: FilesInv says that the rows of a thread are handed over in       *)
(* order, that the files of a row are whole while it stays, that what a    *)
(* row recovered is in the row, and that an open job may read only what is *)
(* catalogued.                                                             *)
(***************************************************************************)
EXTENDS MCService, FiniteSetTheorems, WellFoundedInduction, TLAPS

-----------------------------------------------------------------------------
(* The values of the variables.  The sets of records have names: a step that only
   hands a record on need not look into it. *)
Receipts == [state : {"none", "prepared", "published"}, owner : {"live", "dead"},
             runner : 0 .. MaxRunners]
LaunchSteps == {"off", "look", "spawn", "pin", "failed", "supervise", "adopt", "bridge"}
Launches == [step : LaunchSteps, child : 0 .. MaxRunners, shut : BOOLEAN]
Kinds == {"none", "stop", "force", "start", "recover"}
Backs == {"none", "launcher", "closing"}
Bases == {"none", "queued", "empty"}
Ops == [kind : Kinds, step : OpSteps, back : Backs, target : 0 .. MaxRunners,
        round : 0 .. 3, base : Bases]
Pauses == [runner : 0 .. MaxRunners, ack : BOOLEAN]
Lives == Owning \cup {"none", "shell", "dead"}

\* TypeOK in terms of these sets.
Types ==
  /\ receipt \in Receipts
  /\ life \in [Runners -> Lives]
  /\ frozen \in SUBSET Runners
  /\ term \in SUBSET Runners
  /\ launch \in Launches
  /\ gateway \in BOOLEAN
  /\ job \in {"none", "queued", "running", "done", "failed"}
  /\ op \in Ops
  /\ pause \in Pauses
  /\ marker \in BOOLEAN
  /\ last \in {"none", "stopped", "running", "failed"}
  /\ ops \in 0 .. MaxOps /\ faults \in 0 .. MaxFaults

\* The named sets are those of the type invariant.
LEMMA TypesAre == TypeOK <=> Types
  BY DEF TypeOK, Types, Receipts, Launches, Ops, Pauses, Lives, LaunchSteps, Kinds, Backs, Bases

\* A generation is a number a receipt can hold, and so is 0, for none.
LEMMA Generations == 0 \in 0 .. MaxRunners /\ Runners \subseteq 0 .. MaxRunners
  BY RunnerServiceAssumption DEF Runners

\* A launcher that is off, or that has just been started.
LEMMA LaunchForms == Off \in Launches /\ [Off EXCEPT !.step = "look"] \in Launches
  BY Generations, Zenon DEF Launches, LaunchSteps, Off

\* What a pause request can be.
LEMMA PauseForms ==
  ASSUME NEW p \in Pauses
  PROVE  /\ NoPause \in Pauses /\ [p EXCEPT !.ack = TRUE] \in Pauses
         /\ \A g \in Runners : [runner |-> g, ack |-> FALSE] \in Pauses
BY Generations, Zenon DEF Pauses, NoPause

\* The words the actions use are in the sets.
LEMMA Names ==
  /\ "none" \in OpSteps /\ "check" \in OpSteps /\ "quiesce" \in OpSteps
  /\ "pause" \in OpSteps /\ "ack" \in OpSteps /\ "acked" \in OpSteps
  /\ "frozen" \in OpSteps /\ "leaving" \in OpSteps /\ "killing" \in OpSteps
  /\ "launcher" \in OpSteps /\ "gone" \in OpSteps /\ "receipt" \in OpSteps
  /\ "named" \in OpSteps /\ "closing" \in OpSteps /\ "gateway" \in OpSteps
  /\ "final" \in OpSteps /\ "force" \in OpSteps /\ "forceRunner" \in OpSteps
  /\ "forceLauncher" \in OpSteps /\ "forceCheck" \in OpSteps /\ "repair" \in OpSteps
  /\ "restart" \in OpSteps /\ "health" \in OpSteps /\ "undo" \in OpSteps
  /\ "reap" \in OpSteps /\ "disown" \in OpSteps
  /\ "off" \in LaunchSteps /\ "look" \in LaunchSteps /\ "spawn" \in LaunchSteps
  /\ "pin" \in LaunchSteps /\ "failed" \in LaunchSteps /\ "supervise" \in LaunchSteps
  /\ "adopt" \in LaunchSteps /\ "bridge" \in LaunchSteps
  /\ "none" \in Kinds /\ "stop" \in Kinds /\ "force" \in Kinds
  /\ "start" \in Kinds /\ "recover" \in Kinds
  /\ "none" \in Backs /\ "launcher" \in Backs /\ "closing" \in Backs
  /\ "none" \in Bases /\ "queued" \in Bases /\ "empty" \in Bases
  /\ 0 \in 0 .. 3 /\ 1 \in 0 .. 3 /\ 2 \in 0 .. 3
BY DEF OpSteps, LaunchSteps, Kinds, Backs, Bases

\* No operation is a value of op.
LEMMA NoOpForm == NoOp \in Ops
  BY Generations DEF Ops, NoOp, OpSteps, Kinds, Backs, Bases

\* An operation can go back to where it came from.
LEMMA BackForm == Backs \subseteq OpSteps
  BY DEF Backs, OpSteps

\* Where a generation must be named, one is: in a receipt that stands, by a launcher
\* with a child and by an operation on a runner.
Named ==
  /\ receipt.state = "none" <=> receipt.runner = 0
  /\ launch.step \in {"spawn", "pin", "failed", "supervise", "adopt"} => launch.child # 0
  /\ op.step \in {"ack", "acked", "frozen", "leaving", "killing", "repair", "undo", "reap",
                 "disown"} => op.target # 0

\* The number the launcher or the operation goes by is a generation.
LEMMA NamedForm ==
  ASSUME Types, Named
  PROVE  /\ launch.step \in {"spawn", "pin", "failed", "supervise", "adopt"} =>
              launch.child \in Runners
         /\ op.step \in {"ack", "acked", "frozen", "leaving", "killing", "repair", "undo", "reap",
                        "disown"} => op.target \in Runners
<1> USE RunnerServiceAssumption DEF Types, Named, Runners
<1>1. launch.child \in 0 .. MaxRunners
  BY DEF Launches
<1>2. op.target \in 0 .. MaxRunners
  BY DEF Ops
<1> QED BY <1>1, <1>2

-----------------------------------------------------------------------------
(* The inductive invariant. *)

\* The steps of a forced stop.
ForceSteps == {"force", "forceRunner", "forceLauncher", "forceCheck"}

\* A launcher clears an intent only after its child was killed: retryFailedLaunchCleanup
\* never takes a receipt from a live generation.
FailedIsDead == launch.step = "failed" => ~Alive(launch.child)

\* An operation that runs has reported nothing.
Unreported == Barrier => last = "none"

\* Where an operation of each kind can be.
Stages ==
  /\ op.kind = "none" <=> op.step = "none"
  /\ op.kind = "none" => op.round = 0
  /\ op.step \notin {"none", "check", "repair", "restart", "health", "undo", "reap", "disown"} =>
       op.round >= 1
  /\ op.round >= 2 =>
       op.step \notin {"check", "repair", "restart", "health", "undo", "reap", "disown"}
  /\ op.step \in ForceSteps => op.kind = "force"
  /\ op.kind = "force" => op.step \in ForceSteps \cup {"check", "named", "gone"}
  /\ op.step = "check" => op.target = 0 /\ op.round = 0
  /\ op.step \in {"undo", "reap", "disown", "repair"} => op.kind = "start"
  /\ op.step = "health" => op.kind \in {"start", "recover"}
  /\ op.step \in {"pause", "ack", "acked", "frozen", "leaving", "killing"} =>
       op.back \in {"launcher", "closing"} /\ op.kind # "force"
  /\ op.step = "restart" => op.kind = "recover" \/ (op.kind = "start" /\ op.target = 0)
  /\ op.step = "gateway" => op.round = 1

\* The second round of a stop, and all of a forced one, run without the gateway.
GatewayIsDown ==
  op.round >= 2 \/ (op.kind = "force" /\ op.step # "check") => ~gateway

\* Before a stop is recorded everything is down.
FinalIsDown ==
  op.step = "final" => ~gateway /\ ~LauncherOn /\ receipt.state = "none" /\ job # "running"

\* A runner that is about to have a job, or has one.
Active == {"claiming", "claimed", "working"}

\* The job of a runner that has one is running: what the operator reads in the job table
\* before a SIGTERM.
Working == \A g \in Runners : life[g] \in {"claimed", "working"} => job = "running"

\* A receipt with a live owner has a launcher, which supervises no other generation.
OwnerIsLive ==
  /\ receipt.owner = "live" => LauncherOn /\ receipt.state # "none"
  /\ launch.step \in {"supervise", "adopt"} =>
       receipt.state = "none" \/ receipt.runner = launch.child

\* No runner has, or is about to have, a job; or only the operation's target; or none
\* is at work.
NoneActive == \A g \in Runners : life[g] \notin Active
OnlyTarget == \A g \in Runners : life[g] \in Active => g = op.target
NoneWorks == \A g \in Runners : life[g] # "working"

\* After the quiescence no runner comes near a job until the operation has ended.
StopsAreStill ==
  /\ op.step \in {"launcher", "receipt", "closing", "gateway", "final", "forceLauncher",
                  "forceCheck", "gone"} => NoneActive
  /\ op.step = "named" /\ op.kind # "force" => NoneActive

\* From the pause request to the end of the runner only that runner can be at a job,
\* and once it has been signalled it does not work.
TargetStops ==
  /\ op.step \in {"ack", "acked", "frozen", "leaving", "killing"} => OnlyTarget
  /\ op.step \in {"leaving", "killing"} => NoneWorks

\* A runner with a SIGTERM is never at work: one that was about to claim is the target of
\* the operation, which waits for it.
TermIsIdle ==
  \A g \in term : life[g] \in Active =>
    life[g] # "working" /\ op.step \in {"leaving", "killing"} /\ op.target = g

\* A start that has found a runner, or launched one.
Repairing == op.kind = "start" /\ op.step \in {"repair", "health", "undo", "reap", "disown"}

\* While a start runs, only the runner it found can be at a job.
OnlyFound == Repairing \/ (op.kind = "start" /\ op.step = "restart") => OnlyTarget

\* The runner a start found holds the lock or is dead, its launcher is gone, and the
\* launcher of the repair has another child.
Found ==
  Repairing /\ op.target # 0 =>
    /\ life[op.target] \in Locked \cup {"dead"}
    /\ op.step = "repair" => ~LauncherOn
    /\ Alive(op.target) => receipt.owner = "dead" /\ op.step # "disown"
    /\ LauncherOn => launch.child # op.target

\* The step WorkIsSpared allows.
WorkSpared ==
  \A g \in Runners : Alive(g) /\ life'[g] = "dead" /\ faults' = faults /\ op.kind # "force" =>
    /\ life[g] # "working"
    /\ ~(op.kind = "start" /\ op.target = g
         /\ op.step \in {"repair", "health", "undo", "reap", "disown"} /\ g \notin term)

-----------------------------------------------------------------------------
(* The steps of an operation. *)

\* The holders of the runner lock are generations.
LEMMA RunnersFit == Holders \subseteq 0 .. MaxRunners
  BY Generations DEF Holders

\* 0 is none of them.
LEMMA HoldersFit == Holders \subseteq Runners /\ 0 \notin Runners
  BY RunnerServiceAssumption DEF Holders, Runners

\* The operation has ended.
Ended ==
  op' \in Ops /\ op'.kind = "none" /\ op'.step = "none" /\ op'.back = "none" /\ op'.target = 0
  /\ op'.round = 0

\* It goes on at s, to come back to b, with target t, in round r.
Moves(s, b, t, r) ==
  op' \in Ops /\ op'.kind = op.kind /\ op'.step = s /\ op'.back = b /\ op'.target = t
  /\ op'.round = r

\* No operation is left when one ends.
LEMMA Ending == ASSUME op' = NoOp PROVE Ended
  BY NoOpForm DEF Ended, NoOp

\* What the five kinds of update make of op.
LEMMA Moving ==
  ASSUME Types
  PROVE  /\ \A s \in OpSteps :
              Step(s) => Moves(s, op.back, op.target, op.round)
         /\ \A s \in OpSteps, r \in 0 .. 3 :
              op' = [op EXCEPT !.step = s, !.round = r] => Moves(s, op.back, op.target, r)
         /\ \A s \in OpSteps, b \in Backs :
              op' = [op EXCEPT !.step = s, !.back = b] => Moves(s, b, op.target, op.round)
         /\ \A s \in OpSteps, g \in 0 .. MaxRunners :
              op' = [op EXCEPT !.step = s, !.target = g] => Moves(s, op.back, g, op.round)
         /\ \A s \in OpSteps, b \in Bases :
              op' = [op EXCEPT !.base = b, !.step = s] => Moves(s, op.back, op.target, op.round)
<1> USE DEF Types, Ops, Moves
<1>1. ASSUME NEW s \in OpSteps, Step(s) PROVE Moves(s, op.back, op.target, op.round)
  BY <1>1 DEF Step
<1>2. ASSUME NEW s \in OpSteps, NEW r \in 0 .. 3, op' = [op EXCEPT !.step = s, !.round = r]
      PROVE  Moves(s, op.back, op.target, r)
  BY <1>2
<1>3. ASSUME NEW s \in OpSteps, NEW b \in Backs, op' = [op EXCEPT !.step = s, !.back = b]
      PROVE  Moves(s, b, op.target, op.round)
  BY <1>3
<1>4. ASSUME NEW s \in OpSteps, NEW g \in 0 .. MaxRunners,
             op' = [op EXCEPT !.step = s, !.target = g]
      PROVE  Moves(s, op.back, g, op.round)
  BY <1>4
<1>5. ASSUME NEW s \in OpSteps, NEW b \in Bases, op' = [op EXCEPT !.base = b, !.step = s]
      PROVE  Moves(s, op.back, op.target, op.round)
  BY <1>5
<1> HIDE DEF Moves, Types, Ops
<1> QED BY <1>1, <1>2, <1>3, <1>4, <1>5

\* Where CheckStop leads.
LEMMA CheckStopMoves ==
  ASSUME Types, CheckStop
  PROVE  /\ op.step = "check"
         /\ \/ op.kind = "stop" /\ Ended
            \/ op.kind = "stop" /\ Moves("quiesce", op.back, op.target, 1)
            \/ op.kind = "force" /\ ~gateway' /\ Moves("force", op.back, op.target, 1)
BY Moving, Ending, Names, BackForm, RunnersFit DEF CheckStop, Close, Types, Ops

\* Where Quiesce leads.
LEMMA QuiesceMoves ==
  ASSUME Types, Quiesce
  PROVE  /\ op.step = "quiesce"
         /\ \/ Holders = {} /\ Moves("launcher", op.back, op.target, op.round)
            \/ Moves("pause", "launcher", op.target, op.round)
BY Moving, Ending, Names, BackForm, RunnersFit DEF Quiesce, Types, Ops

\* Where Pause leads.
LEMMA PauseMoves ==
  ASSUME Types, Pause
  PROVE  /\ op.step = "pause"
         /\ \/ Holders = {} /\ Moves(op.back, op.back, op.target, op.round)
            \/ \E g \in Holders : Moves("ack", op.back, g, op.round)
BY Moving, Ending, Names, BackForm, RunnersFit DEF Pause, Types, Ops

\* Where Await leads.
LEMMA AwaitMoves ==
  ASSUME Types, Await
  PROVE  /\ op.step = "ack"
         /\ \/ Ended
            \/ Holders = {} /\ Moves(op.back, op.back, op.target, op.round)
            \/ op.target \in Holders /\ Moves("acked", op.back, op.target, op.round)
            \/ op.target \in Holders /\ Moves("frozen", op.back, op.target, op.round)
BY Moving, Ending, Names, BackForm, RunnersFit DEF Await, Close, Types, Ops

\* Where Decide leads.
LEMMA DecideMoves ==
  ASSUME Types, Decide
  PROVE  /\ op.step \in {"acked", "frozen"}
         /\ \/ Ended
            \/ Moves("killing", op.back, op.target, op.round) /\ job # "running"
            \/ Moves("leaving", op.back, op.target, op.round) /\ job # "running"
<1>1. CASE job = "running"
  BY <1>1, Ending DEF Decide, Close
<1>2. CASE job # "running"
  <2>1. Step("killing") \/ Step("leaving")
    BY <1>2 DEF Decide, Step
  <2> QED BY <1>2, <2>1, Moving, Names DEF Decide
<1> QED BY <1>1, <1>2

\* Where AwaitRunner leads.
LEMMA AwaitRunnerMoves ==
  ASSUME Types, AwaitRunner
  PROVE  /\ op.step \in {"leaving", "killing"}
         /\ \/ "slow" \in Windows /\ Ended
            \/ op' = op
            \/ ~Alive(op.target) /\ Moves(op.back, op.back, op.target, op.round)
BY Moving, Ending, Names, BackForm, RunnersFit DEF AwaitRunner, Close, Types, Ops

\* Where StopLauncher leads.
LEMMA StopLauncherMoves ==
  ASSUME Types, StopLauncher
  PROVE  /\ op.step = "launcher"
         /\ \/ Moves("gone", op.back, op.target, op.round)
            \/ Moves("receipt", op.back, op.target, op.round)
BY Moving, Ending, Names, BackForm, RunnersFit DEF StopLauncher, Types, Ops

\* Where AwaitLauncher leads.
LEMMA AwaitLauncherMoves ==
  ASSUME Types, AwaitLauncher
  PROVE  /\ op.step = "gone"
         /\ \/ "slow" \in Windows /\ Ended
            \/ op' = op
            \/ op.kind = "force" /\ Moves("forceCheck", op.back, op.target, op.round)
            \/ op.kind # "force" /\ Moves("receipt", op.back, op.target, op.round)
BY Moving, Ending, Names, BackForm, RunnersFit DEF AwaitLauncher, Close, Types, Ops

\* Where FreezeLauncher leads.
LEMMA FreezeLauncherMoves ==
  ASSUME Types, FreezeLauncher
  PROVE  /\ op.step \in {"receipt", "force"}
         /\ \/ op.kind = "force" /\ Moves("forceRunner", op.back, op.target, op.round)
            \/ op.kind # "force" /\ Moves("closing", op.back, op.target, op.round)
            \/ Moves("named", op.back, op.target, op.round)
BY Moving, Ending, Names, BackForm, RunnersFit DEF FreezeLauncher, Types, Ops

\* Where ReapReceipt leads.
LEMMA ReapReceiptMoves ==
  ASSUME Types, ReapReceipt
  PROVE  /\ op.step = "named"
         /\ \/ Ended
            \/ op.kind = "force" /\ Moves("forceRunner", op.back, op.target, op.round)
            \/ op.kind # "force" /\ Moves("closing", op.back, op.target, op.round)
BY Moving, Ending, Names, BackForm, RunnersFit DEF ReapReceipt, Close, Types, Ops

\* Where Closing leads.
LEMMA ClosingMoves ==
  ASSUME Types, Closing
  PROVE  /\ op.step = "closing"
         /\ \/ Ended
            \/ Moves("pause", "closing", op.target, op.round)
            \/ op.round = 1 /\ Moves("gateway", op.back, op.target, op.round)
            \/ /\ op.round # 1 /\ Holders = {} /\ ~LauncherOn /\ receipt.state = "none"
               /\ job # "running"
               /\ Moves("final", op.back, op.target, op.round)
<1>1. CASE Holders # {}
  BY <1>1, Moving, Names DEF Closing
<1>2. CASE Holders = {} /\ (LauncherOn \/ receipt.state # "none" \/ job = "running")
  BY <1>2, Ending DEF Closing, Close
<1>3. CASE Holders = {} /\ ~LauncherOn /\ receipt.state = "none" /\ job # "running"
  <2>1. CASE op.round = 1
    <3>1. Step("gateway")
      BY <1>3, <2>1 DEF Closing, Step
    <3> QED BY <2>1, <3>1, Moving, Names DEF Closing
  <2>2. CASE op.round # 1
    <3>1. Step("final")
      BY <1>3, <2>2 DEF Closing, Step
    <3> QED BY <1>3, <2>2, <3>1, Moving, Names DEF Closing
  <2> QED BY <2>1, <2>2
<1> QED BY <1>1, <1>2, <1>3

\* Where StopGateway leads.
LEMMA StopGatewayMoves ==
  ASSUME Types, StopGateway
  PROVE  /\ op.step = "gateway" /\ ~gateway'
         /\ \/ op.kind = "recover" /\ Moves("restart", op.back, op.target, op.round)
            \/ op.kind # "recover" /\ Moves("quiesce", op.back, op.target, 2)
BY Moving, Ending, Names, BackForm, RunnersFit DEF StopGateway, Types, Ops

\* Where Stopped leads.
LEMMA StoppedMoves ==
  ASSUME Types, Stopped
  PROVE  /\ op.step = "final" /\ Ended
BY Moving, Ending, Names, BackForm, RunnersFit DEF Stopped, Close, Types, Ops

\* Where ForceRunner leads.
LEMMA ForceRunnerMoves ==
  ASSUME Types, ForceRunner
  PROVE  /\ op.step = "forceRunner" /\ Moves("forceLauncher", op.back, op.target, op.round)
BY Moving, Ending, Names, BackForm, RunnersFit DEF ForceRunner, Boundary, Types, Ops

\* Where ForceLauncher leads.
LEMMA ForceLauncherMoves ==
  ASSUME Types, ForceLauncher
  PROVE  /\ op.step = "forceLauncher"
         /\ \/ LauncherOn /\ Moves("gone", op.back, op.target, op.round)
            \/ ~LauncherOn /\ Moves("forceCheck", op.back, op.target, op.round)
BY Moving, Ending, Names, BackForm, RunnersFit DEF ForceLauncher, Types, Ops

\* Where ForceCheck leads.
LEMMA ForceCheckMoves ==
  ASSUME Types, ForceCheck
  PROVE  /\ op.step = "forceCheck"
         /\ \/ Ended
            \/ op.round < 3 /\ Moves("force", op.back, op.target, op.round + 1)
<1>1. CASE op' = NoOp
  BY <1>1, Ending DEF ForceCheck
<1>2. CASE op.round < 3 /\ op' = [op EXCEPT !.step = "force", !.round = op.round + 1]
  <2>1. op.round + 1 \in 0 .. 3
    BY <1>2 DEF Types, Ops
  <2> QED BY <1>2, <2>1, Moving, Names DEF ForceCheck
<1> QED BY <1>1, <1>2 DEF ForceCheck, Close

\* Where CheckStart leads.
LEMMA CheckStartMoves ==
  ASSUME Types, CheckStart
  PROVE  /\ op.step = "check" /\ op.kind = "start"
         /\ \/ Ended
            \/ ~LauncherOn /\ \E g \in Holders : Moves("repair", op.back, g, op.round)
            \/ ~LauncherOn /\ Holders = {} /\ Moves("restart", op.back, op.target, op.round)
BY Moving, Ending, Names, RunnersFit DEF CheckStart, Close, Holders

\* Where Launch leads.
LEMMA LaunchMoves ==
  ASSUME Types, Launch
  PROVE  /\ op.step \in {"repair", "restart"} /\ Moves("health", op.back, op.target, op.round)
BY Moving, Ending, Names, BackForm, RunnersFit DEF Launch, Types, Ops

\* Where Health leads.
LEMMA HealthMoves ==
  ASSUME Types, Health
  PROVE  /\ op.step = "health"
         /\ \/ Ended
            \/ op.kind = "start" /\ op.target # 0 /\ Moves("undo", op.back, op.target, op.round)
            \/ /\ op.kind # "recover" /\ ~(op.kind = "start" /\ op.target # 0)
               /\ Moves("quiesce", op.back, op.target, 1)
<1>1. CASE op' = NoOp
  BY <1>1, Ending DEF Health
<1>2. CASE op.kind = "start" /\ op.target # 0 /\ Step("undo")
  BY <1>2, Moving, Names DEF Health
<1>3. CASE /\ op.kind # "recover" /\ ~(op.kind = "start" /\ op.target # 0)
           /\ op' = [op EXCEPT !.step = "quiesce", !.round = 1]
  BY <1>3, Moving, Names DEF Health
<1> QED BY <1>1, <1>2, <1>3 DEF Health, Close

\* Where Undo leads.
LEMMA UndoMoves ==
  ASSUME Types, Undo
  PROVE  /\ op.step = "undo" /\ Moves("reap", op.back, op.target, op.round)
BY Moving, Ending, Names, BackForm, RunnersFit DEF Undo, Types, Ops

\* Where Reap leads.
LEMMA ReapMoves ==
  ASSUME Types, Reap
  PROVE  /\ op.step = "reap"
         /\ \/ Ended
            \/ receipt.owner = "live" /\ Moves("disown", op.back, op.target, op.round)
BY Moving, Ending, Names, BackForm, RunnersFit DEF Reap, Close, Types, Ops

\* Where Disown leads.
LEMMA DisownMoves ==
  ASSUME Types, Disown
  PROVE  /\ op.step = "disown" /\ Ended
BY Moving, Ending, Names, BackForm, RunnersFit DEF Disown, Close, Types, Ops

\* Where CheckRecovery leads.
LEMMA CheckRecoveryMoves ==
  ASSUME Types, CheckRecovery
  PROVE  /\ op.step = "check" /\ op.kind = "recover"
         /\ \/ Ended
            \/ Moves("quiesce", op.back, op.target, 1)
BY Moving, Ending, Names, BackForm, RunnersFit DEF CheckRecovery, Close, Types, Ops

-----------------------------------------------------------------------------
(* Each part of the invariant is kept. *)

\* The types are kept.
LEMMA TypesStep == ASSUME Types, Named, [Next]_vars PROVE Types'
<1> USE Generations, RunnerServiceAssumption
<1>1. CASE Prepare
  <2>1. receipt' \in Receipts
    BY <1>1 DEF Types, Prepare, Receipts, Runners
  <2>2. launch' \in Launches
    BY <1>1, LaunchForms, Names DEF Types, Prepare, Launches
  <2> QED BY <1>1, <2>1, <2>2 DEF Types, Prepare
<1>2. CASE Spawn
  <2>1. life' \in [Runners -> Lives]
    BY <1>2 DEF Types, Spawn, Lives, Owning, Locked
  <2>2. launch' \in Launches
    BY <1>2, LaunchForms, Names DEF Types, Spawn, Launches
  <2> QED BY <1>2, <2>1, <2>2 DEF Types, Spawn
<1>3. CASE ParentPublishes
  <2>1. receipt' \in Receipts
    BY <1>3 DEF Types, ParentPublishes, Receipts, Runners
  <2>2. life' \in [Runners -> Lives]
    BY <1>3 DEF Types, ParentPublishes, Lives, Owning, Locked, Dead
  <2>3. launch' \in Launches
    BY <1>3, LaunchForms, Names DEF Types, ParentPublishes, Launches
  <2> QED BY <1>3, <2>1, <2>2, <2>3 DEF Types, ParentPublishes
<1>4. CASE ClearFailed
  <2>1. receipt' \in Receipts
    BY <1>4 DEF Types, ClearFailed, Receipts, Remove, NoReceipt
  <2>2. launch' \in Launches
    BY <1>4, LaunchForms, Names DEF Types, ClearFailed, Launches
  <2> QED BY <1>4, <2>1, <2>2 DEF Types, ClearFailed
<1>5. CASE ChildGone
  <2>1. receipt' \in Receipts
    BY <1>5 DEF Types, ChildGone, Receipts, Remove, NoReceipt
  <2>2. launch' \in Launches
    BY <1>5, LaunchForms, Names DEF Types, ChildGone, Launches
  <2> QED BY <1>5, <2>1, <2>2 DEF Types, ChildGone
<1>6. CASE Inherit
  <2>1. receipt' \in Receipts
    BY <1>6 DEF Types, Inherit, Receipts, Runners, Remove, NoReceipt
  <2>2. launch' \in Launches
    <3>1. receipt.runner \in 0 .. MaxRunners
      BY DEF Types, Receipts
    <3>2. launch' = [launch EXCEPT !.step = "adopt", !.child = receipt.runner]
           => launch' \in Launches
      BY <3>1, Names DEF Types, Launches
    <3>3. launch' = [launch EXCEPT !.step = "bridge"] => launch' \in Launches
      BY Names DEF Types, Launches
    <3> QED BY <1>6, <3>2, <3>3 DEF Inherit, Types
  <2> QED BY <1>6, <2>1, <2>2 DEF Types, Inherit
<1>7. CASE Bridge
  <2>1. receipt' \in Receipts
    BY <1>7 DEF Types, Bridge, Receipts, NoReceipt, Withdrawn
  <2>2. launch' \in Launches
    BY <1>7, LaunchForms, Names DEF Types, Bridge, Launches
  <2> QED BY <1>7, <2>1, <2>2 DEF Types, Bridge
<1>8. CASE LauncherExits
  <2>1. receipt' \in Receipts
    BY <1>8 DEF Types, LauncherExits, Receipts, LauncherGone
  <2>2. launch' \in Launches
    BY <1>8, LaunchForms, Names DEF Types, LauncherExits, Launches, LauncherGone
  <2> QED BY <1>8, <2>1, <2>2 DEF Types, LauncherExits, LauncherGone
<1>9. CASE GraceEnds
  <2>1. life' \in [Runners -> Lives]
    BY <1>9 DEF Types, GraceEnds, Lives, Owning, Locked, Dead
  <2> QED BY <1>9, <2>1 DEF Types, GraceEnds
<1>10. CASE CheckStop
  <2>1. op' \in Ops
    BY <1>10, CheckStopMoves DEF Ended, Moves, Types
  <2>2. pause' \in Pauses
    BY <1>10, PauseForms DEF Types, CheckStop, Close
  <2> QED BY <1>10, <2>1, <2>2 DEF Types, CheckStop, Close
<1>11. CASE Quiesce
  <2>1. op' \in Ops
    BY <1>11, QuiesceMoves DEF Moves, Types
  <2> QED BY <1>11, <2>1 DEF Types, Quiesce, Step
<1>12. CASE Pause
  <2>1. op' \in Ops
    BY <1>12, PauseMoves DEF Moves, Types
  <2>2. pause' \in Pauses
    BY <1>12, PauseForms DEF Types, Pause, Holders
  <2> QED BY <1>12, <2>1, <2>2 DEF Types, Pause, Step
<1>13. CASE Await
  <2>1. op' \in Ops
    BY <1>13, AwaitMoves DEF Ended, Moves, Types
  <2>2. pause' \in Pauses
    BY <1>13, PauseForms DEF Types, Await, Close, Holders
  <2>3. frozen' \in SUBSET Runners
    <3>1. op.target \in Runners => frozen' \subseteq Runners
      BY <1>13 DEF Await, Types
    <3>2. op.target \notin Runners => frozen' = frozen
      BY <1>13 DEF Await, Holders
    <3> QED BY <3>1, <3>2 DEF Types
  <2> QED BY <1>13, <2>1, <2>2, <2>3 DEF Types, Await, Close, Step
<1>14. CASE Decide
  <2>1. op' \in Ops
    BY <1>14, DecideMoves DEF Ended, Moves, Types
  <2>2. pause' \in Pauses
    BY <1>14, PauseForms DEF Types, Decide, Close
  <2>3. life' \in [Runners -> Lives]
    BY <1>14 DEF Types, Decide, Lives, Owning, Locked, Dead, Unhandled, Terminate
  <2>4. term' \in SUBSET Runners
    BY <1>14, NamedForm DEF Types, Decide, Terminate, Unhandled
  <2> QED BY <1>14, <2>1, <2>2, <2>3, <2>4 DEF Types, Decide, Close, Terminate
<1>15. CASE AwaitRunner
  <2>1. op' \in Ops
    BY <1>15, AwaitRunnerMoves DEF Ended, Moves, Types
  <2>2. pause' \in Pauses
    BY <1>15, PauseForms DEF Types, AwaitRunner, Close
  <2>3. life' \in [Runners -> Lives]
    BY <1>15 DEF Types, AwaitRunner, Lives, Owning, Locked, Dead
  <2>4. faults' \in 0 .. MaxFaults
    BY <1>15 DEF Types, AwaitRunner, Close
  <2> QED BY <1>15, <2>1, <2>2, <2>3, <2>4 DEF Types, AwaitRunner, Close, Step
<1>16. CASE StopLauncher
  <2>1. op' \in Ops
    BY <1>16, StopLauncherMoves DEF Moves, Types
  <2>2. launch' \in Launches
    BY <1>16, LaunchForms, Names DEF Types, StopLauncher, Launches, Shut
  <2>3. life' \in [Runners -> Lives]
    BY <1>16 DEF Types, StopLauncher, Lives, Owning, Locked, Dead, Unhandled, Terminate, Shut
  <2>4. term' \in SUBSET Runners
    BY <1>16, NamedForm DEF Types, StopLauncher, Terminate, Unhandled, Shut
  <2> QED BY <1>16, <2>1, <2>2, <2>3, <2>4 DEF Types, StopLauncher, Step, Terminate, Shut
<1>17. CASE AwaitLauncher
  <2>1. op' \in Ops
    BY <1>17, AwaitLauncherMoves DEF Ended, Moves, Types
  <2>2. pause' \in Pauses
    BY <1>17, PauseForms DEF Types, AwaitLauncher, Close
  <2>3. launch' \in Launches
    BY <1>17, LaunchForms, Names DEF Types, AwaitLauncher, Launches, LauncherGone
  <2>4. receipt' \in Receipts
    BY <1>17 DEF Types, AwaitLauncher, Receipts, LauncherGone
  <2>5. faults' \in 0 .. MaxFaults
    BY <1>17 DEF Types, AwaitLauncher, Close
  <2> QED BY <1>17, <2>1, <2>2, <2>3, <2>4, <2>5 DEF Types, AwaitLauncher, Close, Step,
      LauncherGone
<1>18. CASE FreezeLauncher
  <2>1. op' \in Ops
    BY <1>18, FreezeLauncherMoves DEF Moves, Types
  <2>2. launch' \in Launches
    BY <1>18, LaunchForms, Names DEF Types, FreezeLauncher, Launches, LauncherGone
  <2>3. receipt' \in Receipts
    BY <1>18 DEF Types, FreezeLauncher, Receipts, LauncherGone
  <2> QED BY <1>18, <2>1, <2>2, <2>3 DEF Types, FreezeLauncher, Step, LauncherGone
<1>19. CASE ReapReceipt
  <2>1. op' \in Ops
    BY <1>19, ReapReceiptMoves DEF Ended, Moves, Types
  <2>2. receipt' \in Receipts
    BY <1>19 DEF Types, ReapReceipt, Receipts, Runners, Remove, NoReceipt
  <2>3. life' \in [Runners -> Lives]
    BY <1>19 DEF Types, ReapReceipt, Lives, Owning, Locked, Dead
  <2>4. pause' \in Pauses
    BY <1>19, PauseForms DEF Types, ReapReceipt, Close
  <2> QED BY <1>19, <2>1, <2>2, <2>3, <2>4 DEF Types, ReapReceipt, Close, Step
<1>20. CASE Closing
  <2>1. op' \in Ops
    BY <1>20, ClosingMoves DEF Ended, Moves, Types
  <2>2. pause' \in Pauses
    BY <1>20, PauseForms DEF Types, Closing, Close, Holders
  <2> QED BY <1>20, <2>1, <2>2 DEF Types, Closing, Close, Step
<1>21. CASE StopGateway
  <2>1. op' \in Ops
    BY <1>21, StopGatewayMoves DEF Moves, Types
  <2> QED BY <1>21, <2>1 DEF Types, StopGateway
<1>22. CASE Stopped
  <2>1. op' \in Ops
    BY <1>22, StoppedMoves DEF Ended, Types
  <2>2. pause' \in Pauses
    BY <1>22, PauseForms DEF Types, Stopped, Close
  <2> QED BY <1>22, <2>1, <2>2 DEF Types, Stopped, Close
<1>23. CASE ForceRunner
  <2>1. op' \in Ops
    BY <1>23, ForceRunnerMoves DEF Moves, Types
  <2>2. life' \in [Runners -> Lives]
    BY <1>23 DEF Types, ForceRunner, Lives, Owning, Locked, Dead
  <2> QED BY <1>23, <2>1, <2>2 DEF Types, ForceRunner, Step, Boundary
<1>24. CASE ForceLauncher
  <2>1. op' \in Ops
    BY <1>24, ForceLauncherMoves DEF Moves, Types
  <2>2. launch' \in Launches
    BY <1>24, LaunchForms, Names DEF Types, ForceLauncher, Launches, Shut
  <2>3. life' \in [Runners -> Lives]
    BY <1>24 DEF Types, ForceLauncher, Lives, Owning, Locked, Dead, Unhandled, Terminate, Shut
  <2>4. term' \in SUBSET Runners
    BY <1>24, NamedForm DEF Types, ForceLauncher, Terminate, Unhandled, Shut
  <2> QED BY <1>24, <2>1, <2>2, <2>3, <2>4 DEF Types, ForceLauncher, Step, Terminate, Shut
<1>25. CASE ForceCheck
  <2>1. op' \in Ops
    BY <1>25, ForceCheckMoves DEF Ended, Moves, Types
  <2>2. pause' \in Pauses
    BY <1>25, PauseForms DEF Types, ForceCheck, Close, Holders
  <2> QED BY <1>25, <2>1, <2>2 DEF Types, ForceCheck, Close, FailedByForce
<1>26. CASE CheckStart
  <2>1. op' \in Ops
    BY <1>26, CheckStartMoves DEF Ended, Moves, Types
  <2>2. pause' \in Pauses
    BY <1>26, PauseForms DEF Types, CheckStart, Close, Holders
  <2> QED BY <1>26, <2>1, <2>2 DEF Types, CheckStart, Close, Step
<1>27. CASE Launch
  <2>1. op' \in Ops
    BY <1>27, LaunchMoves DEF Moves, Types
  <2>2. launch' \in Launches
    BY <1>27, LaunchForms, Names DEF Types, Launch, Launches
  <2> QED BY <1>27, <2>1, <2>2 DEF Types, Launch, Step
<1>28. CASE Health
  <2>1. op' \in Ops
    BY <1>28, HealthMoves DEF Ended, Moves, Types
  <2>2. pause' \in Pauses
    BY <1>28, PauseForms DEF Types, Health, Close, Holders
  <2> QED BY <1>28, <2>1, <2>2 DEF Types, Health, Close, Step
<1>29. CASE Undo
  <2>1. op' \in Ops
    BY <1>29, UndoMoves DEF Moves, Types
  <2>2. launch' \in Launches
    BY <1>29, LaunchForms, Names DEF Types, Undo, Launches, Shut
  <2>3. life' \in [Runners -> Lives]
    BY <1>29 DEF Types, Undo, Lives, Owning, Locked, Dead, Unhandled, Terminate, Shut
  <2>4. term' \in SUBSET Runners
    BY <1>29, NamedForm DEF Types, Undo, Terminate, Unhandled, Shut
  <2> QED BY <1>29, <2>1, <2>2, <2>3, <2>4 DEF Types, Undo, Step, Terminate, Shut
<1>30. CASE Reap
  <2>1. op' \in Ops
    BY <1>30, ReapMoves DEF Ended, Moves, Types
  <2>2. launch' \in Launches
    BY <1>30, LaunchForms, Names DEF Types, Reap, Launches, LauncherGone
  <2>3. life' \in [Runners -> Lives]
    BY <1>30 DEF Types, Reap, Lives, Owning, Locked, Dead
  <2>4. receipt' \in Receipts
    BY <1>30 DEF Types, Reap, Receipts, Runners, LauncherGone
  <2>5. pause' \in Pauses
    BY <1>30, PauseForms DEF Types, Reap, Close
  <2> QED BY <1>30, <2>1, <2>2, <2>3, <2>4, <2>5 DEF Types, Reap, Close, Step, LauncherGone
<1>31. CASE Disown
  <2>1. op' \in Ops
    BY <1>31, DisownMoves DEF Ended, Types
  <2>2. life' \in [Runners -> Lives]
    BY <1>31 DEF Types, Disown, Lives, Owning, Locked, Dead
  <2>3. receipt' \in Receipts
    BY <1>31 DEF Types, Disown, Receipts, Runners, Remove, NoReceipt
  <2>4. pause' \in Pauses
    BY <1>31, PauseForms DEF Types, Disown, Close
  <2> QED BY <1>31, <2>1, <2>2, <2>3, <2>4 DEF Types, Disown, Close
<1>32. CASE CheckRecovery
  <2>1. op' \in Ops
    BY <1>32, CheckRecoveryMoves DEF Ended, Moves, Types
  <2>2. pause' \in Pauses
    BY <1>32, PauseForms DEF Types, CheckRecovery, Close, Holders
  <2> QED BY <1>32, <2>1, <2>2 DEF Types, CheckRecovery, Close
<1>33. CASE StartupFails
  <2>1. life' \in [Runners -> Lives]
    BY <1>33 DEF Types, StartupFails, Lives, Owning, Locked, Dead
  <2>2. launch' \in Launches
    BY <1>33, LaunchForms, Names DEF Types, StartupFails, Launches
  <2>3. faults' \in 0 .. MaxFaults
    BY <1>33 DEF Types, StartupFails
  <2> QED BY <1>33, <2>1, <2>2, <2>3 DEF Types, StartupFails
<1>34. CASE LauncherDies
  <2>1. launch' \in Launches
    BY <1>34, LaunchForms, Names DEF Types, LauncherDies, Launches, LauncherGone
  <2>2. receipt' \in Receipts
    BY <1>34 DEF Types, LauncherDies, Receipts, LauncherGone
  <2> QED BY <1>34, <2>1, <2>2 DEF Types, LauncherDies, LauncherGone
<1>35. CASE Enqueue
  <2> QED BY <1>35 DEF Types, Enqueue
<1>36. CASE GatewayDies
  <2>1. faults' \in 0 .. MaxFaults
    BY <1>36 DEF Types, GatewayDies
  <2> QED BY <1>36, <2>1 DEF Types, GatewayDies
<1>37. CASE ShellStart
  <2>1. launch' \in Launches
    BY <1>37, LaunchForms, Names DEF Types, ShellStart, Launches
  <2>2. ops' \in 0 .. MaxOps
    BY <1>37 DEF Types, ShellStart
  <2> QED BY <1>37, <2>1, <2>2 DEF Types, ShellStart
<1>38. ASSUME NEW g \in Runners, ChildPublishes(g) PROVE Types'
  <2>1. receipt' \in Receipts
    BY <1>38 DEF Types, ChildPublishes, Receipts, Runners
  <2>2. life' \in [Runners -> Lives]
    BY <1>38 DEF Types, ChildPublishes, Lives, Owning, Locked, Dead
  <2> QED BY <1>38, <2>1, <2>2 DEF Types, ChildPublishes
<1>39. ASSUME NEW g \in Runners, Acquire(g) PROVE Types'
  <2>1. life' \in [Runners -> Lives]
    BY <1>39 DEF Types, Acquire, Lives, Owning, Locked
  <2> QED BY <1>39, <2>1 DEF Types, Acquire
<1>40. ASSUME NEW g \in Runners, Recover(g) PROVE Types'
  <2>1. life' \in [Runners -> Lives]
    BY <1>40 DEF Types, Recover, Lives, Owning, Locked
  <2> QED BY <1>40, <2>1 DEF Types, Recover
<1>41. ASSUME NEW g \in Runners, Turn(g) PROVE Types'
  <2>1. life' \in [Runners -> Lives]
    BY <1>41 DEF Types, Turn, Lives, Owning, Locked
  <2>2. pause' \in Pauses
    BY <1>41, PauseForms DEF Types, Turn, Acknowledged
  <2> QED BY <1>41, <2>1, <2>2 DEF Types, Turn
<1>42. ASSUME NEW g \in Runners, Claim(g) PROVE Types'
  <2>1. life' \in [Runners -> Lives]
    BY <1>42 DEF Types, Claim, Lives, Owning, Locked
  <2> QED BY <1>42, <2>1 DEF Types, Claim
<1>43. ASSUME NEW g \in Runners, Begin(g) PROVE Types'
  <2>1. life' \in [Runners -> Lives]
    BY <1>43 DEF Types, Begin, Lives, Owning, Locked
  <2>2. pause' \in Pauses
    BY <1>43, PauseForms DEF Types, Begin, Acknowledged
  <2> QED BY <1>43, <2>1, <2>2 DEF Types, Begin
<1>44. ASSUME NEW g \in Runners, Finish(g) PROVE Types'
  <2>1. life' \in [Runners -> Lives]
    BY <1>44 DEF Types, Finish, Lives, Owning, Locked
  <2> QED BY <1>44, <2>1 DEF Types, Finish
<1>45. ASSUME NEW g \in Runners, Leave(g) PROVE Types'
  <2>1. life' \in [Runners -> Lives]
    BY <1>45 DEF Types, Leave, Lives, Owning, Locked, Dead
  <2> QED BY <1>45, <2>1 DEF Types, Leave
<1>46. ASSUME NEW g \in Runners, Timer(g) PROVE Types'
  <2>1. pause' \in Pauses
    BY <1>46, PauseForms DEF Types, Timer, Acknowledged
  <2> QED BY <1>46, <2>1 DEF Types, Timer
<1>47. ASSUME NEW g \in Runners, RunnerDies(g) PROVE Types'
  <2>1. life' \in [Runners -> Lives]
    BY <1>47 DEF Types, RunnerDies, Lives, Owning, Locked, Dead
  <2> QED BY <1>47, <2>1 DEF Types, RunnerDies
<1>48. ASSUME NEW k \in {"stop", "force", "start", "recover"}, Open(k) PROVE Types'
  <2>1. op' \in Ops
    BY <1>48, NoOpForm, Names DEF Types, Open, Ops
  <2> QED BY <1>48, <2>1 DEF Types, Open
<1>49. CASE UNCHANGED vars
  BY <1>49 DEF vars, Types
<1> QED
  BY <1>1, <1>2, <1>3, <1>4, <1>5, <1>6, <1>7, <1>8, <1>9, <1>10, <1>11, <1>12, <1>13, <1>14,
     <1>15, <1>16, <1>17, <1>18, <1>19, <1>20, <1>21, <1>22, <1>23, <1>24, <1>25, <1>26, <1>27,
     <1>28, <1>29, <1>30, <1>31, <1>32, <1>33, <1>34, <1>35, <1>36, <1>37, <1>38, <1>39, <1>40,
     <1>41, <1>42, <1>43, <1>44, <1>45, <1>46, <1>47, <1>48, <1>49 DEF Next, LauncherStep,
     RunnerStep, OpStep

\* Named is kept.
LEMMA NamedStep ==
  ASSUME Types, Named, [Next]_vars
  PROVE  Named'
<1>1. CASE Prepare
  BY <1>1 DEF Prepare, Holders, Locked, Types, Receipts, Launches, Ops, Named, Runners
<1>2. CASE Spawn
  BY <1>2 DEF Spawn, Types, Receipts, Launches, Ops, Named, Runners
<1>3. CASE ParentPublishes
  BY <1>3 DEF ParentPublishes, Dead, Types, Receipts, Launches, Ops, Named, Runners
<1>4. CASE ClearFailed
  BY <1>4 DEF ClearFailed, Remove, NoReceipt, Types, Receipts, Launches, Ops, Named, Runners
<1>5. CASE ChildGone
  BY <1>5 DEF ChildGone, Remove, Off, NoReceipt, Alive, Types, Receipts, Launches, Ops, Named,
     Runners
<1>6. CASE Inherit
  <2>1. CASE Remove /\ UNCHANGED launch
    BY <1>6, <2>1 DEF Inherit, Remove, NoReceipt, Named
  <2>2. CASE /\ receipt.state = "published"
             /\ launch' = [launch EXCEPT !.step = "adopt", !.child = receipt.runner]
             /\ UNCHANGED receipt
    BY <1>6, <2>2 DEF Inherit, Named, Types, Launches
  <2>3. CASE launch' = [launch EXCEPT !.step = "bridge"] /\ UNCHANGED receipt
    BY <1>6, <2>3 DEF Inherit, Named, Types, Launches
  <2> QED BY <1>6, <2>1, <2>2, <2>3 DEF Inherit
<1>7. CASE Bridge
  BY <1>7 DEF Bridge, Withdrawn, NoReceipt, Types, Receipts, Launches, Ops, Named, Runners
<1>8. CASE LauncherExits
  BY <1>8 DEF LauncherExits, LauncherGone, Off, Types, Receipts, Launches, Ops, Named, Runners
<1>9. CASE CheckStop
  <2>1. UNCHANGED <<receipt, launch>>
    BY <1>9 DEF CheckStop
  <2> QED BY <2>1, <1>9, CheckStopMoves DEF Ended, Moves, Types, Receipts, Launches, Ops, Named,
      Runners
<1>10. CASE Quiesce
  <2>1. UNCHANGED <<receipt, launch>>
    BY <1>10 DEF Quiesce
  <2> QED BY <2>1, <1>10, QuiesceMoves DEF Moves, Types, Receipts, Launches, Ops, Named, Runners
<1>11. CASE Pause
  <2>1. UNCHANGED <<receipt, launch>>
    BY <1>11 DEF Pause
  <2> QED BY <2>1, <1>11, PauseMoves, HoldersFit, BackForm DEF Moves, Named, Types, Ops, Backs
<1>12. CASE Await
  <2>1. UNCHANGED <<receipt, launch>>
    BY <1>12 DEF Await
  <2> QED BY <2>1, <1>12, AwaitMoves DEF Ended, Moves, Types, Receipts, Launches, Ops, Named,
      Runners
<1>13. CASE Decide
  <2>1. UNCHANGED <<receipt, launch>>
    BY <1>13 DEF Decide
  <2> QED BY <2>1, <1>13, DecideMoves DEF Ended, Moves, Types, Receipts, Launches, Ops, Named,
      Runners
<1>14. CASE AwaitRunner
  <2>1. UNCHANGED <<receipt, launch>>
    BY <1>14 DEF AwaitRunner
  <2> QED BY <2>1, <1>14, AwaitRunnerMoves DEF Ended, Moves, Types, Receipts, Launches, Ops,
      Named, Runners
<1>15. CASE StopLauncher
  BY <1>15, StopLauncherMoves DEF StopLauncher, Terminate, Unhandled, Shut, Dead, Locked,
     LauncherOn, Moves, Types, Receipts, Launches, Ops, Named, Runners
<1>16. CASE AwaitLauncher
  BY <1>16, AwaitLauncherMoves DEF AwaitLauncher, Close, LauncherGone, Off, NoPause, LauncherOn,
     Ended, Moves, Types, Receipts, Launches, Ops, Named, Runners
<1>17. CASE FreezeLauncher
  BY <1>17, FreezeLauncherMoves DEF FreezeLauncher, LauncherGone, Off, Moves, Types, Receipts,
     Launches, Ops, Named, Runners
<1>18. CASE ReapReceipt
  BY <1>18, ReapReceiptMoves DEF ReapReceipt, Close, Remove, Dead, NoReceipt, NoPause, Alive,
     Ended, Moves, Types, Receipts, Launches, Ops, Named, Runners
<1>19. CASE Closing
  <2>1. UNCHANGED <<receipt, launch>>
    BY <1>19 DEF Closing
  <2> QED BY <2>1, <1>19, ClosingMoves DEF Ended, Moves, Types, Receipts, Launches, Ops, Named,
      Runners
<1>20. CASE StopGateway
  <2>1. UNCHANGED <<receipt, launch>>
    BY <1>20 DEF StopGateway
  <2> QED BY <2>1, <1>20, StopGatewayMoves DEF Moves, Types, Receipts, Launches, Ops, Named,
      Runners
<1>21. CASE Stopped
  <2>1. UNCHANGED <<receipt, launch>>
    BY <1>21 DEF Stopped
  <2> QED BY <2>1, <1>21, StoppedMoves DEF Ended, Types, Receipts, Launches, Ops, Named, Runners
<1>22. CASE ForceRunner
  <2>1. UNCHANGED <<receipt, launch>>
    BY <1>22 DEF ForceRunner
  <2> QED BY <2>1, <1>22, ForceRunnerMoves DEF Moves, Types, Receipts, Launches, Ops, Named,
      Runners
<1>23. CASE ForceLauncher
  BY <1>23, ForceLauncherMoves DEF ForceLauncher, Terminate, Unhandled, Shut, Dead, Locked,
     LauncherOn, Moves, Types, Receipts, Launches, Ops, Named, Runners
<1>24. CASE ForceCheck
  <2>1. UNCHANGED <<receipt, launch>>
    BY <1>24 DEF ForceCheck
  <2> QED BY <2>1, <1>24, ForceCheckMoves DEF Ended, Moves, Types, Receipts, Launches, Ops,
      Named, Runners
<1>25. CASE CheckStart
  <2>1. UNCHANGED <<receipt, launch>>
    BY <1>25 DEF CheckStart
  <2> QED BY <2>1, <1>25, CheckStartMoves, HoldersFit DEF Ended, Moves, Named
<1>26. CASE Launch
  BY <1>26, LaunchMoves DEF Launch, Off, LauncherOn, Moves, Types, Receipts, Launches, Ops,
     Named, Runners
<1>27. CASE Health
  <2>1. UNCHANGED <<receipt, launch>>
    BY <1>27 DEF Health
  <2> QED BY <2>1, <1>27, HealthMoves DEF Ended, Moves, Types, Receipts, Launches, Ops, Named,
      Runners
<1>28. CASE Undo
  BY <1>28, UndoMoves DEF Undo, Terminate, Unhandled, Shut, Dead, Locked, LauncherOn, Moves,
     Types, Receipts, Launches, Ops, Named, Runners
<1>29. CASE Reap
  BY <1>29, ReapMoves DEF Reap, Close, LauncherGone, Dead, Off, NoPause, Locked, Alive, Ended,
     Moves, Types, Receipts, Launches, Ops, Named, Runners
<1>30. CASE Disown
  BY <1>30, DisownMoves DEF Disown, Close, Remove, Dead, NoReceipt, NoPause, Ended, Types,
     Receipts, Launches, Ops, Named, Runners
<1>31. CASE CheckRecovery
  <2>1. UNCHANGED <<receipt, launch>>
    BY <1>31 DEF CheckRecovery
  <2> QED BY <2>1, <1>31, CheckRecoveryMoves DEF Ended, Moves, Types, Receipts, Launches, Ops,
      Named, Runners
<1>32. CASE StartupFails
  BY <1>32 DEF StartupFails, Dead, Types, Receipts, Launches, Ops, Named, Runners
<1>33. CASE LauncherDies
  BY <1>33 DEF LauncherDies, LauncherGone, Off, LauncherOn, Types, Receipts, Launches, Ops,
     Named, Runners
<1>34. CASE ShellStart
  BY <1>34 DEF ShellStart, Off, Holders, Locked, LauncherOn, Barrier, Types, Receipts, Launches,
     Ops, Named, Runners
<1>35. ASSUME NEW g \in Runners, ChildPublishes(g) PROVE Named'
  BY <1>35 DEF ChildPublishes, Dead, IntentStands, Types, Receipts, Launches, Ops, Named, Runners
<1>36. ASSUME NEW k \in {"stop", "force", "start", "recover"}, Open(k)
      PROVE  Named'
  BY <1>36 DEF Open, NoOp, Barrier, Types, Receipts, Launches, Ops, Named, Runners
<1>37. CASE \/ GraceEnds \/ Enqueue \/ GatewayDies
            \/ \E g \in Runners :
               \/ Acquire(g) \/ Recover(g) \/ Turn(g) \/ Claim(g) \/ Begin(g)
               \/ Finish(g) \/ Leave(g) \/ Timer(g) \/ RunnerDies(g)
            \/ UNCHANGED vars
  <2>1. UNCHANGED <<receipt, launch, op>>
    BY <1>37 DEF vars, GraceEnds, Enqueue, GatewayDies, Acquire, Recover, Turn, Claim, Begin,
       Finish, Leave, Timer, RunnerDies
  <2> QED BY <2>1 DEF Types, Receipts, Launches, Ops, Named, Runners
<1> QED BY <1>1, <1>2, <1>3, <1>4, <1>5, <1>6, <1>7, <1>8, <1>9, <1>10, <1>11, <1>12, <1>13,
    <1>14, <1>15, <1>16, <1>17, <1>18, <1>19, <1>20, <1>21, <1>22, <1>23, <1>24, <1>25, <1>26,
    <1>27, <1>28, <1>29, <1>30, <1>31, <1>32, <1>33, <1>34, <1>35, <1>36, <1>37 DEF Next,
    LauncherStep, RunnerStep, OpStep

\* FailedIsDead is kept.
LEMMA FailedStep ==
  ASSUME Types, Named, FailedIsDead, [Next]_vars
  PROVE  FailedIsDead'
<1>1. CASE Prepare
  BY <1>1, NamedForm DEF Prepare, Holders, Locked, Alive, Types, Launches, FailedIsDead
<1>2. CASE Spawn
  BY <1>2, NamedForm DEF Spawn, Alive, Types, Launches, FailedIsDead
<1>3. CASE ParentPublishes
  BY <1>3, NamedForm DEF ParentPublishes, Dead, Alive, Types, Launches, FailedIsDead
<1>4. CASE ClearFailed
  BY <1>4, NamedForm DEF ClearFailed, Remove, NoReceipt, Alive, Types, Launches, FailedIsDead
<1>5. CASE ChildGone
  BY <1>5, NamedForm DEF ChildGone, Remove, Off, NoReceipt, Alive, Types, Launches, FailedIsDead
<1>6. CASE Inherit
  BY <1>6, NamedForm DEF Inherit, Remove, NoReceipt, Holders, Locked, Alive, Types, Launches,
     FailedIsDead
<1>7. CASE Bridge
  BY <1>7, NamedForm DEF Bridge, Withdrawn, NoReceipt, Alive, Types, Launches, FailedIsDead
<1>8. CASE LauncherExits
  BY <1>8, NamedForm DEF LauncherExits, LauncherGone, Off, Alive, Types, Launches, FailedIsDead
<1>9. CASE GraceEnds
  BY <1>9, NamedForm DEF GraceEnds, Dead, Alive, Types, Launches, FailedIsDead
<1>10. CASE Decide
  BY <1>10, NamedForm DEF Decide, Close, Terminate, Unhandled, Dead, NoOp, NoPause, Locked,
     Alive, Types, Launches, FailedIsDead
<1>11. CASE AwaitRunner
  BY <1>11, NamedForm DEF AwaitRunner, Step, Close, Dead, NoOp, NoPause, Alive, Types, Launches,
     FailedIsDead
<1>12. CASE StopLauncher
  BY <1>12, NamedForm DEF StopLauncher, Step, Terminate, Unhandled, Shut, Dead, Locked, Alive,
     LauncherOn, Types, Launches, FailedIsDead
<1>13. CASE AwaitLauncher
  BY <1>13, NamedForm DEF AwaitLauncher, Step, Close, LauncherGone, Off, NoOp, NoPause, Alive,
     LauncherOn, Types, Launches, FailedIsDead
<1>14. CASE FreezeLauncher
  BY <1>14, NamedForm DEF FreezeLauncher, Step, LauncherGone, Off, Alive, Types, Launches,
     FailedIsDead
<1>15. CASE ReapReceipt
  BY <1>15, NamedForm DEF ReapReceipt, Step, Close, Remove, Dead, NoOp, NoReceipt, NoPause,
     Alive, Types, Launches, FailedIsDead
<1>16. CASE ForceRunner
  BY <1>16, NamedForm DEF ForceRunner, Step, Dead, Boundary, Holders, Locked, Alive, Types,
     Launches, FailedIsDead
<1>17. CASE ForceLauncher
  BY <1>17, NamedForm DEF ForceLauncher, Step, Terminate, Unhandled, Shut, Dead, Locked, Alive,
     LauncherOn, Types, Launches, FailedIsDead
<1>18. CASE Launch
  BY <1>18, NamedForm DEF Launch, Step, Off, Alive, LauncherOn, Types, Launches, FailedIsDead
<1>19. CASE Undo
  BY <1>19, NamedForm DEF Undo, Step, Terminate, Unhandled, Shut, Dead, Locked, Alive,
     LauncherOn, Types, Launches, FailedIsDead
<1>20. CASE Reap
  BY <1>20, NamedForm DEF Reap, Step, Close, LauncherGone, Dead, Off, NoOp, NoPause, Locked,
     Alive, Types, Launches, FailedIsDead
<1>21. CASE Disown
  BY <1>21, NamedForm DEF Disown, Close, Remove, Dead, NoOp, NoReceipt, NoPause, Alive, Types,
     Launches, FailedIsDead
<1>22. CASE StartupFails
  BY <1>22, NamedForm DEF StartupFails, Dead, Alive, Types, Launches, FailedIsDead
<1>23. CASE LauncherDies
  BY <1>23, NamedForm DEF LauncherDies, LauncherGone, Off, Alive, LauncherOn, Types, Launches,
     FailedIsDead
<1>24. CASE ShellStart
  BY <1>24, NamedForm DEF ShellStart, Off, Holders, Locked, Alive, LauncherOn, Barrier, Types,
     Launches, FailedIsDead
<1>25. ASSUME NEW g \in Runners, ChildPublishes(g) PROVE FailedIsDead'
  BY <1>25, NamedForm DEF ChildPublishes, Dead, Alive, IntentStands, Types, Launches,
     FailedIsDead
<1>26. ASSUME NEW g \in Runners, Acquire(g) PROVE FailedIsDead'
  BY <1>26, NamedForm DEF Acquire, Holders, Locked, Alive, Types, Launches, FailedIsDead
<1>27. ASSUME NEW g \in Runners, Recover(g) PROVE FailedIsDead'
  BY <1>27, NamedForm DEF Recover, Alive, Types, Launches, FailedIsDead
<1>28. ASSUME NEW g \in Runners, Turn(g) PROVE FailedIsDead'
  BY <1>28, NamedForm DEF Turn, Acknowledged, Alive, Barrier, Types, Launches, FailedIsDead
<1>29. ASSUME NEW g \in Runners, Claim(g) PROVE FailedIsDead'
  BY <1>29, NamedForm DEF Claim, Alive, Types, Launches, FailedIsDead
<1>30. ASSUME NEW g \in Runners, Begin(g) PROVE FailedIsDead'
  BY <1>30, NamedForm DEF Begin, Acknowledged, BarrierAppeared, Alive, Barrier, Types, Launches,
     FailedIsDead
<1>31. ASSUME NEW g \in Runners, Finish(g) PROVE FailedIsDead'
  BY <1>31, NamedForm DEF Finish, Alive, Types, Launches, FailedIsDead
<1>32. ASSUME NEW g \in Runners, Leave(g) PROVE FailedIsDead'
  BY <1>32, NamedForm DEF Leave, Dead, Alive, Types, Launches, FailedIsDead
<1>33. ASSUME NEW g \in Runners, RunnerDies(g) PROVE FailedIsDead'
  BY <1>33, NamedForm DEF RunnerDies, Dead, Alive, Types, Launches, FailedIsDead
<1>34. CASE \/ CheckStop \/ Quiesce \/ Pause \/ Await \/ Closing \/ StopGateway
            \/ Stopped \/ ForceCheck \/ CheckStart \/ Health \/ CheckRecovery \/ Enqueue
            \/ GatewayDies
            \/ \E g \in Runners : Timer(g)
            \/ \E k \in {"stop", "force", "start", "recover"} : Open(k)
            \/ UNCHANGED vars
  <2>1. UNCHANGED <<launch, life>>
    BY <1>34 DEF vars, CheckStop, Quiesce, Pause, Await, Closing, StopGateway, Stopped,
       ForceCheck, CheckStart, Health, CheckRecovery, Enqueue, GatewayDies, Timer, Open
  <2> QED BY <2>1 DEF Types, Launches, FailedIsDead, Alive
<1> QED BY <1>1, <1>2, <1>3, <1>4, <1>5, <1>6, <1>7, <1>8, <1>9, <1>10, <1>11, <1>12, <1>13,
    <1>14, <1>15, <1>16, <1>17, <1>18, <1>19, <1>20, <1>21, <1>22, <1>23, <1>24, <1>25, <1>26,
    <1>27, <1>28, <1>29, <1>30, <1>31, <1>32, <1>33, <1>34 DEF Next, LauncherStep, RunnerStep,
    OpStep

\* Stages is kept.
LEMMA StagesStep ==
  ASSUME Types, Stages, [Next]_vars
  PROVE  Stages'
<1>1. CASE CheckStop
  BY <1>1, CheckStopMoves DEF Ended, Moves, Types, Stages, ForceSteps
<1>2. CASE Quiesce
  BY <1>2, QuiesceMoves DEF Moves, Types, Stages, ForceSteps
<1>3. CASE Pause
  BY <1>3, PauseMoves DEF Moves, Types, Stages, ForceSteps
<1>4. CASE Await
  BY <1>4, AwaitMoves DEF Ended, Moves, Types, Stages, ForceSteps
<1>5. CASE Decide
  BY <1>5, DecideMoves DEF Ended, Moves, Types, Stages, ForceSteps
<1>6. CASE AwaitRunner
  BY <1>6, AwaitRunnerMoves DEF Ended, Moves, Types, Stages, ForceSteps
<1>7. CASE StopLauncher
  BY <1>7, StopLauncherMoves DEF Moves, Types, Stages, ForceSteps
<1>8. CASE AwaitLauncher
  BY <1>8, AwaitLauncherMoves DEF Ended, Moves, Types, Stages, ForceSteps
<1>9. CASE FreezeLauncher
  BY <1>9, FreezeLauncherMoves DEF Moves, Types, Stages, ForceSteps
<1>10. CASE ReapReceipt
  BY <1>10, ReapReceiptMoves DEF Ended, Moves, Types, Stages, ForceSteps
<1>11. CASE Closing
  BY <1>11, ClosingMoves DEF Ended, Moves, Types, Stages, ForceSteps
<1>12. CASE StopGateway
  BY <1>12, StopGatewayMoves DEF Moves, Types, Stages, ForceSteps
<1>13. CASE Stopped
  BY <1>13, StoppedMoves DEF Ended, Types, Stages, ForceSteps
<1>14. CASE ForceRunner
  BY <1>14, ForceRunnerMoves DEF Moves, Types, Stages, ForceSteps
<1>15. CASE ForceLauncher
  BY <1>15, ForceLauncherMoves DEF Moves, Types, Stages, ForceSteps
<1>16. CASE ForceCheck
  <2>1. op.round \in Nat
    BY DEF Types, Ops
  <2> QED BY <2>1, <1>16, ForceCheckMoves DEF Ended, Moves, Types, Stages, ForceSteps
<1>17. CASE CheckStart
  BY <1>17, CheckStartMoves DEF Ended, Moves, Types, Stages, ForceSteps
<1>18. CASE Launch
  BY <1>18, LaunchMoves DEF Moves, Types, Stages, ForceSteps
<1>19. CASE Health
  BY <1>19, HealthMoves DEF Ended, Moves, Types, Stages, ForceSteps
<1>20. CASE Undo
  BY <1>20, UndoMoves DEF Moves, Types, Stages, ForceSteps
<1>21. CASE Reap
  BY <1>21, ReapMoves DEF Ended, Moves, Types, Stages, ForceSteps
<1>22. CASE Disown
  BY <1>22, DisownMoves DEF Ended, Types, Stages, ForceSteps
<1>23. CASE CheckRecovery
  BY <1>23, CheckRecoveryMoves DEF Ended, Moves, Types, Stages, ForceSteps
<1>24. ASSUME NEW k \in {"stop", "force", "start", "recover"}, Open(k)
      PROVE  Stages'
  BY <1>24 DEF Open, NoOp, Barrier, Types, Stages, ForceSteps
<1>25. CASE \/ Prepare \/ Spawn \/ ParentPublishes \/ ClearFailed \/ ChildGone \/ Inherit
            \/ Bridge \/ LauncherExits \/ GraceEnds \/ StartupFails \/ LauncherDies \/ Enqueue
            \/ GatewayDies \/ ShellStart
            \/ \E g \in Runners :
               \/ ChildPublishes(g) \/ Acquire(g) \/ Recover(g) \/ Turn(g) \/ Claim(g)
               \/ Begin(g) \/ Finish(g) \/ Leave(g) \/ Timer(g) \/ RunnerDies(g)
            \/ UNCHANGED vars
  <2>1. UNCHANGED <<op>>
    BY <1>25 DEF vars, Prepare, Spawn, ParentPublishes, ClearFailed, ChildGone, Inherit, Bridge,
       LauncherExits, GraceEnds, StartupFails, LauncherDies, Enqueue, GatewayDies, ShellStart,
       ChildPublishes, Acquire, Recover, Turn, Claim, Begin, Finish, Leave, Timer, RunnerDies
  <2> QED BY <2>1 DEF Types, Stages, ForceSteps
<1> QED BY <1>1, <1>2, <1>3, <1>4, <1>5, <1>6, <1>7, <1>8, <1>9, <1>10, <1>11, <1>12, <1>13,
    <1>14, <1>15, <1>16, <1>17, <1>18, <1>19, <1>20, <1>21, <1>22, <1>23, <1>24, <1>25 DEF Next,
    LauncherStep, RunnerStep, OpStep

\* Unreported is kept.
LEMMA UnreportedStep ==
  ASSUME Types, Stages, Unreported, [Next]_vars
  PROVE  Unreported'
<1>1. CASE CheckStop
  <2>1. op' = NoOp \/ last' = last
    BY <1>1 DEF CheckStop, Close
  <2> QED BY <2>1, <1>1, CheckStopMoves DEF Types, NoOp, Unreported, Stages, Barrier
<1>2. CASE Quiesce
  <2>1. op' = NoOp \/ last' = last
    BY <1>2 DEF Quiesce
  <2> QED BY <2>1, <1>2, QuiesceMoves DEF Types, NoOp, Unreported, Stages, Barrier
<1>3. CASE Pause
  <2>1. op' = NoOp \/ last' = last
    BY <1>3 DEF Pause
  <2> QED BY <2>1, <1>3, PauseMoves DEF Types, NoOp, Unreported, Stages, Barrier
<1>4. CASE Await
  <2>1. op' = NoOp \/ last' = last
    BY <1>4 DEF Await, Close
  <2> QED BY <2>1, <1>4, AwaitMoves DEF Types, NoOp, Unreported, Stages, Barrier
<1>5. CASE Decide
  <2>1. op' = NoOp \/ last' = last
    BY <1>5 DEF Decide, Close
  <2> QED BY <2>1, <1>5, DecideMoves DEF Types, NoOp, Unreported, Stages, Barrier
<1>6. CASE AwaitRunner
  <2>1. op' = NoOp \/ last' = last
    BY <1>6 DEF AwaitRunner, Close
  <2> QED BY <2>1, <1>6, AwaitRunnerMoves DEF Types, NoOp, Unreported, Stages, Barrier
<1>7. CASE StopLauncher
  <2>1. op' = NoOp \/ last' = last
    BY <1>7 DEF StopLauncher
  <2> QED BY <2>1, <1>7, StopLauncherMoves DEF Types, NoOp, Unreported, Stages, Barrier
<1>8. CASE AwaitLauncher
  <2>1. op' = NoOp \/ last' = last
    BY <1>8 DEF AwaitLauncher, Close
  <2> QED BY <2>1, <1>8, AwaitLauncherMoves DEF Types, NoOp, Unreported, Stages, Barrier
<1>9. CASE FreezeLauncher
  <2>1. op' = NoOp \/ last' = last
    BY <1>9 DEF FreezeLauncher
  <2> QED BY <2>1, <1>9, FreezeLauncherMoves DEF Types, NoOp, Unreported, Stages, Barrier
<1>10. CASE ReapReceipt
  <2>1. op' = NoOp \/ last' = last
    BY <1>10 DEF ReapReceipt, Close
  <2> QED BY <2>1, <1>10, ReapReceiptMoves DEF Types, NoOp, Unreported, Stages, Barrier
<1>11. CASE Closing
  <2>1. op' = NoOp \/ last' = last
    BY <1>11 DEF Closing, Close
  <2> QED BY <2>1, <1>11, ClosingMoves DEF Types, NoOp, Unreported, Stages, Barrier
<1>12. CASE StopGateway
  <2>1. op' = NoOp \/ last' = last
    BY <1>12 DEF StopGateway
  <2> QED BY <2>1, <1>12, StopGatewayMoves DEF Types, NoOp, Unreported, Stages, Barrier
<1>13. CASE Stopped
  <2>1. op' = NoOp \/ last' = last
    BY <1>13 DEF Stopped, Close
  <2> QED BY <2>1, <1>13, StoppedMoves DEF Types, NoOp, Unreported, Stages, Barrier
<1>14. CASE ForceRunner
  <2>1. op' = NoOp \/ last' = last
    BY <1>14 DEF ForceRunner
  <2> QED BY <2>1, <1>14, ForceRunnerMoves DEF Types, NoOp, Unreported, Stages, Barrier
<1>15. CASE ForceLauncher
  <2>1. op' = NoOp \/ last' = last
    BY <1>15 DEF ForceLauncher
  <2> QED BY <2>1, <1>15, ForceLauncherMoves DEF Types, NoOp, Unreported, Stages, Barrier
<1>16. CASE ForceCheck
  <2>1. op' = NoOp \/ last' = last
    BY <1>16 DEF ForceCheck, Close
  <2> QED BY <2>1, <1>16, ForceCheckMoves DEF Types, NoOp, Unreported, Stages, Barrier
<1>17. CASE CheckStart
  <2>1. op' = NoOp \/ last' = last
    BY <1>17 DEF CheckStart, Close
  <2> QED BY <2>1, <1>17, CheckStartMoves DEF Types, NoOp, Unreported, Stages, Barrier
<1>18. CASE Launch
  <2>1. op' = NoOp \/ last' = last
    BY <1>18 DEF Launch
  <2> QED BY <2>1, <1>18, LaunchMoves DEF Types, NoOp, Unreported, Stages, Barrier
<1>19. CASE Health
  <2>1. op' = NoOp \/ last' = last
    BY <1>19 DEF Health, Close
  <2> QED BY <2>1, <1>19, HealthMoves DEF Types, NoOp, Unreported, Stages, Barrier
<1>20. CASE Undo
  <2>1. op' = NoOp \/ last' = last
    BY <1>20 DEF Undo
  <2> QED BY <2>1, <1>20, UndoMoves DEF Types, NoOp, Unreported, Stages, Barrier
<1>21. CASE Reap
  <2>1. op' = NoOp \/ last' = last
    BY <1>21 DEF Reap, Close
  <2> QED BY <2>1, <1>21, ReapMoves DEF Types, NoOp, Unreported, Stages, Barrier
<1>22. CASE Disown
  <2>1. op' = NoOp \/ last' = last
    BY <1>22 DEF Disown, Close
  <2> QED BY <2>1, <1>22, DisownMoves DEF Types, NoOp, Unreported, Stages, Barrier
<1>23. CASE CheckRecovery
  <2>1. op' = NoOp \/ last' = last
    BY <1>23 DEF CheckRecovery, Close
  <2> QED BY <2>1, <1>23, CheckRecoveryMoves DEF Types, NoOp, Unreported, Stages, Barrier
<1>24. CASE ShellStart
  BY <1>24 DEF ShellStart, Off, Holders, Locked, LauncherOn, Barrier, Types, Unreported, Stages
<1>25. ASSUME NEW k \in {"stop", "force", "start", "recover"}, Open(k)
      PROVE  Unreported'
  BY <1>25 DEF Open, NoOp, Barrier, Types, Unreported, Stages
<1>26. CASE \/ Prepare \/ Spawn \/ ParentPublishes \/ ClearFailed \/ ChildGone \/ Inherit
            \/ Bridge \/ LauncherExits \/ GraceEnds \/ StartupFails \/ LauncherDies \/ Enqueue
            \/ GatewayDies
            \/ \E g \in Runners :
               \/ ChildPublishes(g) \/ Acquire(g) \/ Recover(g) \/ Turn(g) \/ Claim(g)
               \/ Begin(g) \/ Finish(g) \/ Leave(g) \/ Timer(g) \/ RunnerDies(g)
            \/ UNCHANGED vars
  <2>1. UNCHANGED <<op, last>>
    BY <1>26 DEF vars, Prepare, Spawn, ParentPublishes, ClearFailed, ChildGone, Inherit, Bridge,
       LauncherExits, GraceEnds, StartupFails, LauncherDies, Enqueue, GatewayDies,
       ChildPublishes, Acquire, Recover, Turn, Claim, Begin, Finish, Leave, Timer, RunnerDies
  <2> QED BY <2>1 DEF Types, Unreported, Stages, Barrier
<1> QED BY <1>1, <1>2, <1>3, <1>4, <1>5, <1>6, <1>7, <1>8, <1>9, <1>10, <1>11, <1>12, <1>13,
    <1>14, <1>15, <1>16, <1>17, <1>18, <1>19, <1>20, <1>21, <1>22, <1>23, <1>24, <1>25, <1>26
    DEF Next, LauncherStep, RunnerStep, OpStep

\* GatewayIsDown is kept: only a start or a plain launch brings a gateway up.
LEMMA GatewayStep ==
  ASSUME Types, Stages, GatewayIsDown, [Next]_vars
  PROVE  GatewayIsDown'
<1>1. CASE CheckStop
  <2>1. gateway' => gateway
    BY <1>1 DEF CheckStop
  <2> QED BY <2>1, <1>1, CheckStopMoves DEF Ended, Moves, Stages, GatewayIsDown, ForceSteps
<1>2. CASE Quiesce
  <2>1. UNCHANGED <<gateway>>
    BY <1>2 DEF Quiesce
  <2> QED BY <2>1, <1>2, QuiesceMoves DEF Moves, Types, Stages, ForceSteps, GatewayIsDown
<1>3. CASE Pause
  <2>1. UNCHANGED <<gateway>>
    BY <1>3 DEF Pause
  <2> QED BY <2>1, <1>3, PauseMoves DEF Moves, Types, Stages, ForceSteps, GatewayIsDown
<1>4. CASE Await
  <2>1. UNCHANGED <<gateway>>
    BY <1>4 DEF Await
  <2> QED BY <2>1, <1>4, AwaitMoves DEF Ended, Moves, Types, Stages, ForceSteps, GatewayIsDown
<1>5. CASE Decide
  <2>1. UNCHANGED <<gateway>>
    BY <1>5 DEF Decide
  <2> QED BY <2>1, <1>5, DecideMoves DEF Ended, Moves, Types, Stages, ForceSteps, GatewayIsDown
<1>6. CASE AwaitRunner
  <2>1. UNCHANGED <<gateway>>
    BY <1>6 DEF AwaitRunner
  <2> QED BY <2>1, <1>6, AwaitRunnerMoves DEF Ended, Moves, Types, Stages, ForceSteps,
      GatewayIsDown
<1>7. CASE StopLauncher
  <2>1. UNCHANGED <<gateway>>
    BY <1>7 DEF StopLauncher
  <2> QED BY <2>1, <1>7, StopLauncherMoves DEF Moves, Types, Stages, ForceSteps, GatewayIsDown
<1>8. CASE AwaitLauncher
  <2>1. UNCHANGED <<gateway>>
    BY <1>8 DEF AwaitLauncher
  <2> QED BY <2>1, <1>8, AwaitLauncherMoves DEF Ended, Moves, Types, Stages, ForceSteps,
      GatewayIsDown
<1>9. CASE FreezeLauncher
  <2>1. UNCHANGED <<gateway>>
    BY <1>9 DEF FreezeLauncher
  <2> QED BY <2>1, <1>9, FreezeLauncherMoves DEF Moves, Types, Stages, ForceSteps, GatewayIsDown
<1>10. CASE ReapReceipt
  <2>1. UNCHANGED <<gateway>>
    BY <1>10 DEF ReapReceipt
  <2> QED BY <2>1, <1>10, ReapReceiptMoves DEF Ended, Moves, Types, Stages, ForceSteps,
      GatewayIsDown
<1>11. CASE Closing
  <2>1. UNCHANGED <<gateway>>
    BY <1>11 DEF Closing
  <2> QED BY <2>1, <1>11, ClosingMoves DEF Ended, Moves, Types, Stages, ForceSteps, GatewayIsDown
<1>12. CASE StopGateway
  BY <1>12, StopGatewayMoves DEF StopGateway, Moves, Types, Stages, ForceSteps, GatewayIsDown
<1>13. CASE Stopped
  <2>1. UNCHANGED <<gateway>>
    BY <1>13 DEF Stopped
  <2> QED BY <2>1, <1>13, StoppedMoves DEF Ended, Types, Stages, ForceSteps, GatewayIsDown
<1>14. CASE ForceRunner
  <2>1. UNCHANGED <<gateway>>
    BY <1>14 DEF ForceRunner
  <2> QED BY <2>1, <1>14, ForceRunnerMoves DEF Moves, Types, Stages, ForceSteps, GatewayIsDown
<1>15. CASE ForceLauncher
  <2>1. UNCHANGED <<gateway>>
    BY <1>15 DEF ForceLauncher
  <2> QED BY <2>1, <1>15, ForceLauncherMoves DEF Moves, Types, Stages, ForceSteps, GatewayIsDown
<1>16. CASE ForceCheck
  <2>1. UNCHANGED <<gateway>>
    BY <1>16 DEF ForceCheck
  <2> QED BY <2>1, <1>16, ForceCheckMoves DEF Ended, Moves, Types, Stages, ForceSteps,
      GatewayIsDown
<1>17. CASE CheckStart
  <2>1. UNCHANGED <<gateway>>
    BY <1>17 DEF CheckStart
  <2> QED BY <2>1, <1>17, CheckStartMoves DEF Ended, Moves, Types, Stages, ForceSteps,
      GatewayIsDown
<1>18. CASE Launch
  BY <1>18, LaunchMoves DEF Launch, Off, LauncherOn, Moves, Types, Stages, ForceSteps,
     GatewayIsDown
<1>19. CASE Health
  <2>1. UNCHANGED <<gateway>>
    BY <1>19 DEF Health
  <2> QED BY <2>1, <1>19, HealthMoves DEF Ended, Moves, Types, Stages, ForceSteps, GatewayIsDown
<1>20. CASE Undo
  <2>1. UNCHANGED <<gateway>>
    BY <1>20 DEF Undo
  <2> QED BY <2>1, <1>20, UndoMoves DEF Moves, Types, Stages, ForceSteps, GatewayIsDown
<1>21. CASE Reap
  <2>1. UNCHANGED <<gateway>>
    BY <1>21 DEF Reap
  <2> QED BY <2>1, <1>21, ReapMoves DEF Ended, Moves, Types, Stages, ForceSteps, GatewayIsDown
<1>22. CASE Disown
  <2>1. UNCHANGED <<gateway>>
    BY <1>22 DEF Disown
  <2> QED BY <2>1, <1>22, DisownMoves DEF Ended, Types, Stages, ForceSteps, GatewayIsDown
<1>23. CASE CheckRecovery
  <2>1. UNCHANGED <<gateway>>
    BY <1>23 DEF CheckRecovery
  <2> QED BY <2>1, <1>23, CheckRecoveryMoves DEF Ended, Moves, Types, Stages, ForceSteps,
      GatewayIsDown
<1>24. CASE GatewayDies
  BY <1>24 DEF GatewayDies, Types, Stages, ForceSteps, GatewayIsDown
<1>25. CASE ShellStart
  BY <1>25 DEF ShellStart, Barrier, Stages, GatewayIsDown, Types, Ops
<1>26. ASSUME NEW k \in {"stop", "force", "start", "recover"}, Open(k)
      PROVE  GatewayIsDown'
  BY <1>26 DEF Open, NoOp, Barrier, Types, Stages, ForceSteps, GatewayIsDown
<1>27. CASE \/ Prepare \/ Spawn \/ ParentPublishes \/ ClearFailed \/ ChildGone \/ Inherit
            \/ Bridge \/ LauncherExits \/ GraceEnds \/ StartupFails \/ LauncherDies \/ Enqueue
            \/ \E g \in Runners :
               \/ ChildPublishes(g) \/ Acquire(g) \/ Recover(g) \/ Turn(g) \/ Claim(g)
               \/ Begin(g) \/ Finish(g) \/ Leave(g) \/ Timer(g) \/ RunnerDies(g)
            \/ UNCHANGED vars
  <2>1. UNCHANGED <<op, gateway>>
    BY <1>27 DEF vars, Prepare, Spawn, ParentPublishes, ClearFailed, ChildGone, Inherit, Bridge,
       LauncherExits, GraceEnds, StartupFails, LauncherDies, Enqueue, ChildPublishes, Acquire,
       Recover, Turn, Claim, Begin, Finish, Leave, Timer, RunnerDies
  <2> QED BY <2>1 DEF Types, Stages, ForceSteps, GatewayIsDown
<1> QED BY <1>1, <1>2, <1>3, <1>4, <1>5, <1>6, <1>7, <1>8, <1>9, <1>10, <1>11, <1>12, <1>13,
    <1>14, <1>15, <1>16, <1>17, <1>18, <1>19, <1>20, <1>21, <1>22, <1>23, <1>24, <1>25, <1>26,
    <1>27 DEF Next, LauncherStep, RunnerStep, OpStep

\* Owned is kept: a receipt is removed only with the generation it names, or from one
\* that is not past its publication.
LEMMA OwnedStep ==
  ASSUME Types, Named, Owned, FailedIsDead, [Next]_vars
  PROVE  Owned'
<1>1. CASE Prepare
  BY <1>1, NamedForm DEF Prepare, Holders, Locked, Owning, Types, Receipts, Owned
<1>2. CASE Spawn
  BY <1>2, NamedForm DEF Spawn, Locked, Owning, Types, Receipts, Owned
<1>3. CASE ParentPublishes
  BY <1>3, NamedForm DEF ParentPublishes, Dead, Locked, Owning, Types, Receipts, Owned
<1>4. CASE ClearFailed
  BY <1>4 DEF ClearFailed, Owned, FailedIsDead, Alive, Remove, NoReceipt, Types, Receipts,
     Owning, Locked
<1>5. CASE ChildGone
  BY <1>5, NamedForm DEF ChildGone, Remove, Off, NoReceipt, Locked, Owning, Alive, Types,
     Receipts, Owned
<1>6. CASE Inherit
  BY <1>6, NamedForm DEF Inherit, Remove, NoReceipt, Holders, Locked, Owning, Alive, Types,
     Receipts, Owned
<1>7. CASE Bridge
  BY <1>7, NamedForm DEF Bridge, Withdrawn, NoReceipt, Locked, Owning, Types, Receipts, Owned
<1>8. CASE LauncherExits
  BY <1>8, NamedForm DEF LauncherExits, LauncherGone, Off, Locked, Owning, Types, Receipts, Owned
<1>9. CASE GraceEnds
  BY <1>9, NamedForm DEF GraceEnds, Dead, Locked, Owning, Alive, Types, Receipts, Owned
<1>10. CASE Decide
  BY <1>10, NamedForm DEF Decide, Close, Terminate, Unhandled, Dead, NoOp, NoPause, Locked,
     Owning, Types, Receipts, Owned
<1>11. CASE AwaitRunner
  BY <1>11, NamedForm DEF AwaitRunner, Step, Close, Dead, NoOp, NoPause, Locked, Owning, Alive,
     Types, Receipts, Owned
<1>12. CASE StopLauncher
  BY <1>12, NamedForm DEF StopLauncher, Step, Terminate, Unhandled, Shut, Dead, Locked, Owning,
     LauncherOn, Types, Receipts, Owned
<1>13. CASE AwaitLauncher
  BY <1>13, NamedForm DEF AwaitLauncher, Step, Close, LauncherGone, Off, NoOp, NoPause, Locked,
     Owning, LauncherOn, Types, Receipts, Owned
<1>14. CASE FreezeLauncher
  BY <1>14, NamedForm DEF FreezeLauncher, Step, LauncherGone, Off, Locked, Owning, Types,
     Receipts, Owned
<1>15. CASE ReapReceipt
  <2>1. CASE UNCHANGED <<receipt, life>>
    BY <2>1 DEF Owned
  <2>2. CASE receipt.state # "published" /\ UNCHANGED life
    BY <2>2 DEF Owned
  <2>3. CASE receipt.state = "published" /\ life' = Dead({receipt.runner} \ {0})
    BY <2>3, HoldersFit DEF Owned, Dead, Types, Owning, Locked
  <2>4. receipt.state \in {"none", "prepared", "published"}
    BY DEF Types, Receipts
  <2> QED BY <1>15, <2>1, <2>2, <2>3, <2>4 DEF ReapReceipt
<1>16. CASE ForceRunner
  BY <1>16, NamedForm DEF ForceRunner, Step, Dead, Boundary, Holders, Locked, Owning, Types,
     Receipts, Owned
<1>17. CASE ForceLauncher
  BY <1>17, NamedForm DEF ForceLauncher, Step, Terminate, Unhandled, Shut, Dead, Locked, Owning,
     LauncherOn, Types, Receipts, Owned
<1>18. CASE Undo
  BY <1>18, NamedForm DEF Undo, Step, Terminate, Unhandled, Shut, Dead, Locked, Owning,
     LauncherOn, Types, Receipts, Owned
<1>19. CASE Reap
  BY <1>19, NamedForm DEF Reap, Step, Close, LauncherGone, Dead, Off, NoOp, NoPause, Locked,
     Owning, Alive, Types, Receipts, Owned
<1>20. CASE Disown
  <2>1. CASE receipt.state # "published" /\ UNCHANGED life
    BY <2>1 DEF Owned
  <2>2. CASE receipt.state = "published" /\ life' = Dead({receipt.runner} \ {0})
    BY <2>2, HoldersFit DEF Owned, Dead, Types, Owning, Locked
  <2> QED BY <1>20, <2>1, <2>2 DEF Disown
<1>21. CASE StartupFails
  BY <1>21, NamedForm DEF StartupFails, Dead, Locked, Owning, Types, Receipts, Owned
<1>22. CASE LauncherDies
  BY <1>22, NamedForm DEF LauncherDies, LauncherGone, Off, Locked, Owning, LauncherOn, Types,
     Receipts, Owned
<1>23. ASSUME NEW g \in Runners, ChildPublishes(g) PROVE Owned'
  BY <1>23, NamedForm DEF ChildPublishes, Dead, Locked, Owning, IntentStands, Types, Receipts,
     Owned
<1>24. ASSUME NEW g \in Runners, Acquire(g) PROVE Owned'
  BY <1>24, NamedForm DEF Acquire, Holders, Locked, Owning, Types, Receipts, Owned
<1>25. ASSUME NEW g \in Runners, Recover(g) PROVE Owned'
  BY <1>25, NamedForm DEF Recover, Locked, Owning, Types, Receipts, Owned
<1>26. ASSUME NEW g \in Runners, Turn(g) PROVE Owned'
  BY <1>26, NamedForm DEF Turn, Acknowledged, Locked, Owning, Barrier, Types, Receipts, Owned
<1>27. ASSUME NEW g \in Runners, Claim(g) PROVE Owned'
  BY <1>27, NamedForm DEF Claim, Locked, Owning, Types, Receipts, Owned
<1>28. ASSUME NEW g \in Runners, Begin(g) PROVE Owned'
  BY <1>28, NamedForm DEF Begin, Acknowledged, BarrierAppeared, Locked, Owning, Barrier, Types,
     Receipts, Owned
<1>29. ASSUME NEW g \in Runners, Finish(g) PROVE Owned'
  BY <1>29, NamedForm DEF Finish, Locked, Owning, Types, Receipts, Owned
<1>30. ASSUME NEW g \in Runners, Leave(g) PROVE Owned'
  BY <1>30, NamedForm DEF Leave, Dead, Locked, Owning, Types, Receipts, Owned
<1>31. ASSUME NEW g \in Runners, RunnerDies(g) PROVE Owned'
  BY <1>31, NamedForm DEF RunnerDies, Dead, Locked, Owning, Alive, Types, Receipts, Owned
<1>32. CASE \/ CheckStop \/ Quiesce \/ Pause \/ Await \/ Closing \/ StopGateway
            \/ Stopped \/ ForceCheck \/ CheckStart \/ Launch \/ Health \/ CheckRecovery
            \/ Enqueue \/ GatewayDies \/ ShellStart
            \/ \E g \in Runners : Timer(g)
            \/ \E k \in {"stop", "force", "start", "recover"} : Open(k)
            \/ UNCHANGED vars
  <2>1. UNCHANGED <<receipt, life>>
    BY <1>32 DEF vars, CheckStop, Quiesce, Pause, Await, Closing, StopGateway, Stopped,
       ForceCheck, CheckStart, Launch, Health, CheckRecovery, Enqueue, GatewayDies, ShellStart,
       Timer, Open
  <2> QED BY <2>1 DEF Types, Receipts, Owned, Owning, Locked
<1> QED BY <1>1, <1>2, <1>3, <1>4, <1>5, <1>6, <1>7, <1>8, <1>9, <1>10, <1>11, <1>12, <1>13,
    <1>14, <1>15, <1>16, <1>17, <1>18, <1>19, <1>20, <1>21, <1>22, <1>23, <1>24, <1>25, <1>26,
    <1>27, <1>28, <1>29, <1>30, <1>31, <1>32 DEF Next, LauncherStep, RunnerStep, OpStep

\* FinalIsDown is kept: nothing comes up between the last look and the record.
LEMMA FinalStep ==
  ASSUME Types, Stages, Owned, GatewayIsDown, FinalIsDown, [Next]_vars
  PROVE  FinalIsDown'
<1>1. CASE Prepare
  BY <1>1 DEF Prepare, Holders, Locked, LauncherOn, Types, Ops, Stages, FinalIsDown
<1>2. CASE Spawn
  BY <1>2 DEF Spawn, LauncherOn, Types, Ops, Stages, FinalIsDown
<1>3. CASE ParentPublishes
  BY <1>3 DEF ParentPublishes, Dead, LauncherOn, Types, Ops, Stages, FinalIsDown
<1>4. CASE ClearFailed
  BY <1>4 DEF ClearFailed, Remove, NoReceipt, LauncherOn, Types, Ops, Stages, FinalIsDown
<1>5. CASE ChildGone
  BY <1>5 DEF ChildGone, Remove, Off, NoReceipt, Alive, LauncherOn, Types, Ops, Stages,
     FinalIsDown
<1>6. CASE Inherit
  BY <1>6 DEF Inherit, Remove, NoReceipt, Holders, Locked, Alive, LauncherOn, Types, Ops,
     Stages, FinalIsDown
<1>7. CASE Bridge
  BY <1>7 DEF Bridge, Withdrawn, NoReceipt, LauncherOn, Types, Ops, Stages, FinalIsDown
<1>8. CASE LauncherExits
  BY <1>8 DEF LauncherExits, LauncherGone, Off, LauncherOn, Types, Ops, Stages, FinalIsDown
<1>9. CASE CheckStop
  BY <1>9, CheckStopMoves DEF CheckStop, Close, NoPause, Ended, Moves, Types, Ops, Stages,
     FinalIsDown, LauncherOn
<1>10. CASE Quiesce
  <2>1. UNCHANGED <<gateway, launch, receipt, job>>
    BY <1>10 DEF Quiesce
  <2> QED BY <2>1, <1>10, QuiesceMoves DEF Moves, Types, Ops, Stages, FinalIsDown, LauncherOn
<1>11. CASE Pause
  <2>1. UNCHANGED <<gateway, launch, receipt, job>>
    BY <1>11 DEF Pause
  <2> QED BY <2>1, <1>11, PauseMoves DEF Moves, Types, Ops, Stages, FinalIsDown, LauncherOn
<1>12. CASE Await
  <2>1. UNCHANGED <<gateway, launch, receipt, job>>
    BY <1>12 DEF Await
  <2> QED BY <2>1, <1>12, AwaitMoves DEF Ended, Moves, Types, Ops, Stages, FinalIsDown,
      LauncherOn
<1>13. CASE Decide
  <2>1. UNCHANGED <<gateway, launch, receipt, job>>
    BY <1>13 DEF Decide
  <2> QED BY <2>1, <1>13, DecideMoves DEF Ended, Moves, Types, Ops, Stages, FinalIsDown,
      LauncherOn
<1>14. CASE AwaitRunner
  <2>1. UNCHANGED <<gateway, launch, receipt, job>>
    BY <1>14 DEF AwaitRunner
  <2> QED BY <2>1, <1>14, AwaitRunnerMoves DEF Ended, Moves, Types, Ops, Stages, FinalIsDown,
      LauncherOn
<1>15. CASE StopLauncher
  BY <1>15, StopLauncherMoves DEF StopLauncher, Terminate, Unhandled, Shut, Dead, Locked,
     LauncherOn, Moves, Types, Ops, Stages, FinalIsDown
<1>16. CASE AwaitLauncher
  BY <1>16, AwaitLauncherMoves DEF AwaitLauncher, Close, LauncherGone, Off, NoPause, LauncherOn,
     Ended, Moves, Types, Ops, Stages, FinalIsDown
<1>17. CASE FreezeLauncher
  BY <1>17, FreezeLauncherMoves DEF FreezeLauncher, LauncherGone, Off, Moves, Types, Ops,
     Stages, FinalIsDown, LauncherOn
<1>18. CASE ReapReceipt
  BY <1>18, ReapReceiptMoves DEF ReapReceipt, Close, Remove, Dead, NoReceipt, NoPause, Alive,
     Ended, Moves, Types, Ops, Stages, FinalIsDown, LauncherOn
<1>19. CASE Closing
  <2>1. UNCHANGED <<gateway, launch, receipt, job>>
    BY <1>19 DEF Closing
  <2> QED BY <2>1, <1>19, ClosingMoves DEF Ended, Moves, Stages, GatewayIsDown, FinalIsDown,
      LauncherOn, Types, Ops
<1>20. CASE StopGateway
  BY <1>20, StopGatewayMoves DEF StopGateway, Moves, Types, Ops, Stages, FinalIsDown, LauncherOn
<1>21. CASE Stopped
  <2>1. UNCHANGED <<gateway, launch, receipt, job>>
    BY <1>21 DEF Stopped
  <2> QED BY <2>1, <1>21, StoppedMoves DEF Ended, Types, Ops, Stages, FinalIsDown, LauncherOn
<1>22. CASE ForceRunner
  <2>1. UNCHANGED <<gateway, launch, receipt, job>>
    BY <1>22 DEF ForceRunner
  <2> QED BY <2>1, <1>22, ForceRunnerMoves DEF Moves, Types, Ops, Stages, FinalIsDown, LauncherOn
<1>23. CASE ForceLauncher
  BY <1>23, ForceLauncherMoves DEF ForceLauncher, Terminate, Unhandled, Shut, Dead, Locked,
     LauncherOn, Moves, Types, Ops, Stages, FinalIsDown
<1>24. CASE ForceCheck
  BY <1>24, ForceCheckMoves DEF ForceCheck, Close, FailedByForce, NoPause, Holders, Locked,
     LauncherOn, Ended, Moves, Types, Ops, Stages, FinalIsDown
<1>25. CASE CheckStart
  <2>1. UNCHANGED <<gateway, launch, receipt, job>>
    BY <1>25 DEF CheckStart
  <2> QED BY <2>1, <1>25, CheckStartMoves DEF Ended, Moves, Types, Ops, Stages, FinalIsDown,
      LauncherOn
<1>26. CASE Launch
  BY <1>26, LaunchMoves DEF Launch, Off, LauncherOn, Moves, Types, Ops, Stages, FinalIsDown
<1>27. CASE Health
  <2>1. UNCHANGED <<gateway, launch, receipt, job>>
    BY <1>27 DEF Health
  <2> QED BY <2>1, <1>27, HealthMoves DEF Ended, Moves, Types, Ops, Stages, FinalIsDown,
      LauncherOn
<1>28. CASE Undo
  BY <1>28, UndoMoves DEF Undo, Terminate, Unhandled, Shut, Dead, Locked, LauncherOn, Moves,
     Types, Ops, Stages, FinalIsDown
<1>29. CASE Reap
  BY <1>29, ReapMoves DEF Reap, Close, LauncherGone, Dead, Off, NoPause, Locked, Alive, Ended,
     Moves, Types, Ops, Stages, FinalIsDown, LauncherOn
<1>30. CASE Disown
  BY <1>30, DisownMoves DEF Disown, Close, Remove, Dead, NoReceipt, NoPause, Ended, Types, Ops,
     Stages, FinalIsDown, LauncherOn
<1>31. CASE CheckRecovery
  <2>1. UNCHANGED <<gateway, launch, receipt, job>>
    BY <1>31 DEF CheckRecovery
  <2> QED BY <2>1, <1>31, CheckRecoveryMoves DEF Ended, Moves, Types, Ops, Stages, FinalIsDown,
      LauncherOn
<1>32. CASE StartupFails
  BY <1>32 DEF StartupFails, Dead, LauncherOn, Types, Ops, Stages, FinalIsDown
<1>33. CASE LauncherDies
  BY <1>33 DEF LauncherDies, LauncherGone, Off, LauncherOn, Types, Ops, Stages, FinalIsDown
<1>34. CASE Enqueue
  BY <1>34 DEF Enqueue, LauncherOn, Types, Ops, Stages, FinalIsDown
<1>35. CASE GatewayDies
  BY <1>35 DEF GatewayDies, LauncherOn, Types, Ops, Stages, FinalIsDown
<1>36. CASE ShellStart
  BY <1>36 DEF ShellStart, Off, Holders, Locked, LauncherOn, Barrier, Types, Ops, Stages,
     FinalIsDown
<1>37. ASSUME NEW g \in Runners, ChildPublishes(g) PROVE FinalIsDown'
  BY <1>37 DEF ChildPublishes, Dead, LauncherOn, IntentStands, Types, Ops, Stages, FinalIsDown
<1>38. ASSUME NEW g \in Runners, Recover(g) PROVE FinalIsDown'
  BY <1>38 DEF Recover, LauncherOn, Types, Ops, Stages, FinalIsDown
<1>39. ASSUME NEW g \in Runners, Claim(g) PROVE FinalIsDown'
  <2>1. receipt.state = "published"
    BY <1>39 DEF Claim, Owned, Owning, Locked
  <2> QED BY <2>1, <1>39 DEF Claim, FinalIsDown, LauncherOn
<1>40. ASSUME NEW g \in Runners, Begin(g) PROVE FinalIsDown'
  BY <1>40 DEF Begin, Acknowledged, BarrierAppeared, LauncherOn, Barrier, Types, Ops, Stages,
     FinalIsDown
<1>41. ASSUME NEW g \in Runners, Finish(g) PROVE FinalIsDown'
  BY <1>41 DEF Finish, LauncherOn, Types, Ops, Stages, FinalIsDown
<1>42. ASSUME NEW k \in {"stop", "force", "start", "recover"}, Open(k)
      PROVE  FinalIsDown'
  BY <1>42 DEF Open, NoOp, LauncherOn, Barrier, Types, Ops, Stages, FinalIsDown
<1>43. CASE \/ GraceEnds
            \/ \E g \in Runners : Acquire(g) \/ Turn(g) \/ Leave(g) \/ Timer(g) \/ RunnerDies(g)
            \/ UNCHANGED vars
  <2>1. UNCHANGED <<op, gateway, launch, receipt, job>>
    BY <1>43 DEF vars, GraceEnds, Acquire, Turn, Leave, Timer, RunnerDies
  <2> QED BY <2>1 DEF Types, Ops, Stages, FinalIsDown, LauncherOn
<1> QED BY <1>1, <1>2, <1>3, <1>4, <1>5, <1>6, <1>7, <1>8, <1>9, <1>10, <1>11, <1>12, <1>13,
    <1>14, <1>15, <1>16, <1>17, <1>18, <1>19, <1>20, <1>21, <1>22, <1>23, <1>24, <1>25, <1>26,
    <1>27, <1>28, <1>29, <1>30, <1>31, <1>32, <1>33, <1>34, <1>35, <1>36, <1>37, <1>38, <1>39,
    <1>40, <1>41, <1>42, <1>43 DEF Next, LauncherStep, RunnerStep, OpStep

\* StopIsFinal is kept.
LEMMA StopStep ==
  ASSUME Types, Stages, Owned, GatewayIsDown, FinalIsDown, Unreported, StopIsFinal, [Next]_vars
  PROVE  StopIsFinal'
<1>1. CASE Prepare
  BY <1>1 DEF Prepare, Holders, Locked, LauncherOn, StopIsFinal, Barrier, Types, Ops, Stages
<1>2. CASE Spawn
  BY <1>2 DEF Spawn, LauncherOn, StopIsFinal, Barrier, Types, Ops, Stages
<1>3. CASE ParentPublishes
  BY <1>3 DEF ParentPublishes, Dead, LauncherOn, StopIsFinal, Barrier, Types, Ops, Stages
<1>4. CASE ClearFailed
  BY <1>4 DEF ClearFailed, Remove, NoReceipt, LauncherOn, StopIsFinal, Barrier, Types, Ops,
     Stages
<1>5. CASE ChildGone
  BY <1>5 DEF ChildGone, Remove, Off, NoReceipt, Alive, LauncherOn, StopIsFinal, Barrier, Types,
     Ops, Stages
<1>6. CASE Inherit
  BY <1>6 DEF Inherit, Remove, NoReceipt, Holders, Locked, Alive, LauncherOn, StopIsFinal,
     Barrier, Types, Ops, Stages
<1>7. CASE Bridge
  BY <1>7 DEF Bridge, Withdrawn, NoReceipt, LauncherOn, StopIsFinal, Barrier, Types, Ops, Stages
<1>8. CASE LauncherExits
  BY <1>8 DEF LauncherExits, LauncherGone, Off, LauncherOn, StopIsFinal, Barrier, Types, Ops,
     Stages
<1>9. CASE GraceEnds
  BY <1>9 DEF GraceEnds, Dead, Alive, LauncherOn, StopIsFinal, Barrier, Types, Ops, Stages
<1>10. CASE CheckStop
  <2>1. op.kind # "none"
    BY <1>10, CheckStopMoves DEF Stages, Types, Ops
  <2>2. (op' = NoOp /\ last' # "stopped") \/ last' = last
    BY <1>10 DEF CheckStop, Close
  <2> QED BY <2>1, <2>2, <1>10, CheckStopMoves DEF Unreported, Barrier, StopIsFinal
<1>11. CASE Quiesce
  <2>1. op.kind # "none"
    BY <1>11, QuiesceMoves DEF Stages, Types, Ops
  <2>2. (op' = NoOp /\ last' # "stopped") \/ last' = last
    BY <1>11 DEF Quiesce
  <2> QED BY <2>1, <2>2, <1>11, QuiesceMoves DEF Unreported, Barrier, StopIsFinal
<1>12. CASE Pause
  <2>1. op.kind # "none"
    BY <1>12, PauseMoves DEF Stages, Types, Ops
  <2>2. (op' = NoOp /\ last' # "stopped") \/ last' = last
    BY <1>12 DEF Pause
  <2> QED BY <2>1, <2>2, <1>12, PauseMoves DEF Unreported, Barrier, StopIsFinal
<1>13. CASE Await
  <2>1. op.kind # "none"
    BY <1>13, AwaitMoves DEF Stages, Types, Ops
  <2>2. (op' = NoOp /\ last' # "stopped") \/ last' = last
    BY <1>13 DEF Await, Close
  <2> QED BY <2>1, <2>2, <1>13, AwaitMoves DEF Unreported, Barrier, StopIsFinal
<1>14. CASE Decide
  <2>1. op.kind # "none"
    BY <1>14, DecideMoves DEF Stages, Types, Ops
  <2>2. (op' = NoOp /\ last' # "stopped") \/ last' = last
    BY <1>14 DEF Decide, Close
  <2> QED BY <2>1, <2>2, <1>14, DecideMoves DEF Unreported, Barrier, StopIsFinal
<1>15. CASE AwaitRunner
  <2>1. op.kind # "none"
    BY <1>15, AwaitRunnerMoves DEF Stages, Types, Ops
  <2>2. (op' = NoOp /\ last' # "stopped") \/ last' = last
    BY <1>15 DEF AwaitRunner, Close
  <2> QED BY <2>1, <2>2, <1>15, AwaitRunnerMoves DEF Unreported, Barrier, StopIsFinal
<1>16. CASE StopLauncher
  <2>1. op.kind # "none"
    BY <1>16, StopLauncherMoves DEF Stages, Types, Ops
  <2>2. (op' = NoOp /\ last' # "stopped") \/ last' = last
    BY <1>16 DEF StopLauncher
  <2> QED BY <2>1, <2>2, <1>16, StopLauncherMoves DEF Unreported, Barrier, StopIsFinal
<1>17. CASE AwaitLauncher
  <2>1. op.kind # "none"
    BY <1>17, AwaitLauncherMoves DEF Stages, Types, Ops
  <2>2. (op' = NoOp /\ last' # "stopped") \/ last' = last
    BY <1>17 DEF AwaitLauncher, Close
  <2> QED BY <2>1, <2>2, <1>17, AwaitLauncherMoves DEF Unreported, Barrier, StopIsFinal
<1>18. CASE FreezeLauncher
  <2>1. op.kind # "none"
    BY <1>18, FreezeLauncherMoves DEF Stages, Types, Ops
  <2>2. (op' = NoOp /\ last' # "stopped") \/ last' = last
    BY <1>18 DEF FreezeLauncher
  <2> QED BY <2>1, <2>2, <1>18, FreezeLauncherMoves DEF Unreported, Barrier, StopIsFinal
<1>19. CASE ReapReceipt
  <2>1. op.kind # "none"
    BY <1>19, ReapReceiptMoves DEF Stages, Types, Ops
  <2>2. (op' = NoOp /\ last' # "stopped") \/ last' = last
    BY <1>19 DEF ReapReceipt, Close
  <2> QED BY <2>1, <2>2, <1>19, ReapReceiptMoves DEF Unreported, Barrier, StopIsFinal
<1>20. CASE Closing
  <2>1. op.kind # "none"
    BY <1>20, ClosingMoves DEF Stages, Types, Ops
  <2>2. (op' = NoOp /\ last' # "stopped") \/ last' = last
    BY <1>20 DEF Closing, Close
  <2> QED BY <2>1, <2>2, <1>20, ClosingMoves DEF Unreported, Barrier, StopIsFinal
<1>21. CASE StopGateway
  <2>1. op.kind # "none"
    BY <1>21, StopGatewayMoves DEF Stages, Types, Ops
  <2>2. (op' = NoOp /\ last' # "stopped") \/ last' = last
    BY <1>21 DEF StopGateway
  <2> QED BY <2>1, <2>2, <1>21, StopGatewayMoves DEF Unreported, Barrier, StopIsFinal
<1>22. CASE Stopped
  <2>1. ~gateway /\ ~LauncherOn /\ receipt.state = "none" /\ job # "running"
    BY <1>22 DEF Stopped, FinalIsDown
  <2>2. \A g \in Runners : life[g] \in {"none", "shell", "dead"}
    BY <2>1 DEF Owned, Owning, Types, Lives
  <2>3. UNCHANGED <<receipt, life, launch, gateway, job>>
    BY <1>22 DEF Stopped
  <2> QED BY <2>1, <2>2, <2>3 DEF StopIsFinal, LauncherOn
<1>23. CASE ForceRunner
  <2>1. op.kind # "none"
    BY <1>23, ForceRunnerMoves DEF Stages, Types, Ops
  <2>2. (op' = NoOp /\ last' # "stopped") \/ last' = last
    BY <1>23 DEF ForceRunner
  <2> QED BY <2>1, <2>2, <1>23, ForceRunnerMoves DEF Unreported, Barrier, StopIsFinal
<1>24. CASE ForceLauncher
  <2>1. op.kind # "none"
    BY <1>24, ForceLauncherMoves DEF Stages, Types, Ops
  <2>2. (op' = NoOp /\ last' # "stopped") \/ last' = last
    BY <1>24 DEF ForceLauncher
  <2> QED BY <2>1, <2>2, <1>24, ForceLauncherMoves DEF Unreported, Barrier, StopIsFinal
<1>25. CASE ForceCheck
  <2>1. UNCHANGED <<receipt, life, launch, gateway>>
    BY <1>25 DEF ForceCheck
  <2>2. CASE Barrier'
    BY <2>2 DEF StopIsFinal
  <2>3. CASE last' # "stopped"
    BY <2>3 DEF StopIsFinal
  <2>4. CASE Holders = {} /\ ~LauncherOn /\ receipt.state = "none" /\ job' = FailedByForce
    <3>1. \A g \in Runners : life[g] \in {"none", "shell", "dead"}
      BY <2>4 DEF Owned, Owning, Types, Lives
    <3>2. ~gateway
      BY <1>25 DEF ForceCheck, Stages, ForceSteps, GatewayIsDown
    <3>3. job' # "running"
      BY <2>4 DEF FailedByForce
    <3> QED BY <2>1, <2>4, <3>1, <3>2, <3>3 DEF StopIsFinal, LauncherOn
  <2>5. op.kind # "none"
    BY <1>25 DEF ForceCheck, Stages
  <2>6. CASE ~(Holders = {} /\ ~LauncherOn /\ receipt.state = "none")
    <3>1. CASE op.round < 3
      <4>1. op' = [op EXCEPT !.step = "force", !.round = op.round + 1]
        BY <1>25, <2>6, <3>1 DEF ForceCheck
      <4> QED BY <4>1, <2>5, <2>2 DEF Barrier, Types, Ops
    <3>2. CASE ~(op.round < 3)
      BY <1>25, <2>6, <3>2, <2>3 DEF ForceCheck, Close
    <3> QED BY <3>1, <3>2
  <2>7. CASE Holders = {} /\ ~LauncherOn /\ receipt.state = "none"
    BY <1>25, <2>7, <2>4 DEF ForceCheck
  <2> QED BY <2>6, <2>7
<1>26. CASE CheckStart
  <2>1. op.kind # "none"
    BY <1>26, CheckStartMoves DEF Stages, Types, Ops
  <2>2. (op' = NoOp /\ last' # "stopped") \/ last' = last
    BY <1>26 DEF CheckStart, Close
  <2> QED BY <2>1, <2>2, <1>26, CheckStartMoves DEF Unreported, Barrier, StopIsFinal
<1>27. CASE Launch
  <2>1. op.kind # "none"
    BY <1>27, LaunchMoves DEF Stages, Types, Ops
  <2>2. (op' = NoOp /\ last' # "stopped") \/ last' = last
    BY <1>27 DEF Launch
  <2> QED BY <2>1, <2>2, <1>27, LaunchMoves DEF Unreported, Barrier, StopIsFinal
<1>28. CASE Health
  <2>1. op.kind # "none"
    BY <1>28, HealthMoves DEF Stages, Types, Ops
  <2>2. (op' = NoOp /\ last' # "stopped") \/ last' = last
    BY <1>28 DEF Health, Close
  <2> QED BY <2>1, <2>2, <1>28, HealthMoves DEF Unreported, Barrier, StopIsFinal
<1>29. CASE Undo
  <2>1. op.kind # "none"
    BY <1>29, UndoMoves DEF Stages, Types, Ops
  <2>2. (op' = NoOp /\ last' # "stopped") \/ last' = last
    BY <1>29 DEF Undo
  <2> QED BY <2>1, <2>2, <1>29, UndoMoves DEF Unreported, Barrier, StopIsFinal
<1>30. CASE Reap
  <2>1. op.kind # "none"
    BY <1>30, ReapMoves DEF Stages, Types, Ops
  <2>2. (op' = NoOp /\ last' # "stopped") \/ last' = last
    BY <1>30 DEF Reap, Close
  <2> QED BY <2>1, <2>2, <1>30, ReapMoves DEF Unreported, Barrier, StopIsFinal
<1>31. CASE Disown
  <2>1. op.kind # "none"
    BY <1>31, DisownMoves DEF Stages, Types, Ops
  <2>2. (op' = NoOp /\ last' # "stopped") \/ last' = last
    BY <1>31 DEF Disown, Close
  <2> QED BY <2>1, <2>2, <1>31, DisownMoves DEF Unreported, Barrier, StopIsFinal
<1>32. CASE CheckRecovery
  <2>1. op.kind # "none"
    BY <1>32, CheckRecoveryMoves DEF Stages, Types, Ops
  <2>2. (op' = NoOp /\ last' # "stopped") \/ last' = last
    BY <1>32 DEF CheckRecovery, Close
  <2> QED BY <2>1, <2>2, <1>32, CheckRecoveryMoves DEF Unreported, Barrier, StopIsFinal
<1>33. CASE StartupFails
  BY <1>33 DEF StartupFails, Dead, LauncherOn, StopIsFinal, Barrier, Types, Ops, Stages
<1>34. CASE LauncherDies
  BY <1>34 DEF LauncherDies, LauncherGone, Off, LauncherOn, StopIsFinal, Barrier, Types, Ops,
     Stages
<1>35. CASE Enqueue
  BY <1>35 DEF Enqueue, LauncherOn, StopIsFinal, Barrier, Types, Ops, Stages
<1>36. CASE GatewayDies
  BY <1>36 DEF GatewayDies, LauncherOn, StopIsFinal, Barrier, Types, Ops, Stages
<1>37. CASE ShellStart
  BY <1>37 DEF ShellStart, Off, Holders, Locked, LauncherOn, Barrier, StopIsFinal, Types, Ops,
     Stages
<1>38. ASSUME NEW g \in Runners, ChildPublishes(g) PROVE StopIsFinal'
  BY <1>38 DEF ChildPublishes, Dead, LauncherOn, IntentStands, StopIsFinal, Barrier, Types, Ops,
     Stages
<1>39. ASSUME NEW g \in Runners, Acquire(g) PROVE StopIsFinal'
  BY <1>39 DEF Acquire, Holders, Locked, LauncherOn, StopIsFinal, Barrier, Types, Ops, Stages
<1>40. ASSUME NEW g \in Runners, Recover(g) PROVE StopIsFinal'
  BY <1>40 DEF Recover, LauncherOn, StopIsFinal, Barrier, Types, Ops, Stages
<1>41. ASSUME NEW g \in Runners, Turn(g) PROVE StopIsFinal'
  BY <1>41 DEF Turn, Acknowledged, LauncherOn, Barrier, StopIsFinal, Types, Ops, Stages
<1>42. ASSUME NEW g \in Runners, Claim(g) PROVE StopIsFinal'
  BY <1>42 DEF Claim, LauncherOn, StopIsFinal, Barrier, Types, Ops, Stages
<1>43. ASSUME NEW g \in Runners, Begin(g) PROVE StopIsFinal'
  BY <1>43 DEF Begin, Acknowledged, BarrierAppeared, LauncherOn, Barrier, StopIsFinal, Types,
     Ops, Stages
<1>44. ASSUME NEW g \in Runners, Finish(g) PROVE StopIsFinal'
  BY <1>44 DEF Finish, LauncherOn, StopIsFinal, Barrier, Types, Ops, Stages
<1>45. ASSUME NEW g \in Runners, Leave(g) PROVE StopIsFinal'
  BY <1>45 DEF Leave, Dead, LauncherOn, StopIsFinal, Barrier, Types, Ops, Stages
<1>46. ASSUME NEW g \in Runners, RunnerDies(g) PROVE StopIsFinal'
  BY <1>46 DEF RunnerDies, Dead, Alive, LauncherOn, StopIsFinal, Barrier, Types, Ops, Stages
<1>47. ASSUME NEW k \in {"stop", "force", "start", "recover"}, Open(k)
      PROVE  StopIsFinal'
  BY <1>47 DEF Open, NoOp, LauncherOn, Barrier, StopIsFinal, Types, Ops, Stages
<1>48. CASE \/ \E g \in Runners : Timer(g)
            \/ UNCHANGED vars
  <2>1. UNCHANGED <<op, gateway, launch, receipt, job, life, last>>
    BY <1>48 DEF vars, Timer
  <2> QED BY <2>1 DEF StopIsFinal, Barrier, Types, Ops, Stages, LauncherOn
<1> QED BY <1>1, <1>2, <1>3, <1>4, <1>5, <1>6, <1>7, <1>8, <1>9, <1>10, <1>11, <1>12, <1>13,
    <1>14, <1>15, <1>16, <1>17, <1>18, <1>19, <1>20, <1>21, <1>22, <1>23, <1>24, <1>25, <1>26,
    <1>27, <1>28, <1>29, <1>30, <1>31, <1>32, <1>33, <1>34, <1>35, <1>36, <1>37, <1>38, <1>39,
    <1>40, <1>41, <1>42, <1>43, <1>44, <1>45, <1>46, <1>47, <1>48 DEF Next, LauncherStep,
    RunnerStep, OpStep

-----------------------------------------------------------------------------
(* What a step does to the generations. *)

\* Under the barrier no runner begins to claim, and none begins to work.
Calm ==
  Barrier => \A g \in Runners :
    /\ life'[g] \in Active => life[g] \in Active
    /\ life'[g] = "working" => life[g] = "working"

\* A runner with a SIGTERM does not begin to claim.
Dulled == \A g \in term : life'[g] \in Active => life[g] \in Active

\* A runner that holds the lock keeps it until it dies, and stays dead.
Aged ==
  \A g \in Runners : launch.step # "spawn" \/ launch.child # g =>
    /\ life[g] \in Locked \cup {"dead"} => life'[g] \in Locked \cup {"dead"}
    /\ life[g] = "dead" => life'[g] = "dead"

\* One generation is past its publication.
LEMMA Single ==
  ASSUME Owned, NEW g \in Runners, NEW h \in Runners, life[g] \in Owning, life[h] \in Owning
  PROVE  g = h
  BY DEF Owned

\* The claim looks at the barrier before and after: nothing begins under the update lock.
LEMMA CalmStep ==
  ASSUME Types, [Next]_vars
  PROVE  Calm
<1>1. CASE Spawn
  BY <1>1 DEF Spawn, Barrier, Calm, Active, Types, Owning, Locked, Lives
<1>2. CASE ParentPublishes
  BY <1>2 DEF ParentPublishes, Dead, Barrier, Calm, Active, Types, Owning, Locked, Lives
<1>3. CASE GraceEnds
  BY <1>3 DEF GraceEnds, Dead, Alive, Barrier, Calm, Active, Types, Owning, Locked, Lives
<1>4. CASE Decide
  BY <1>4 DEF Decide, Close, Terminate, Unhandled, Dead, NoOp, NoPause, Locked, Barrier, Calm,
     Active, Types, Owning, Lives
<1>5. CASE AwaitRunner
  BY <1>5 DEF AwaitRunner, Step, Close, Dead, NoOp, NoPause, Alive, Barrier, Calm, Active,
     Types, Owning, Locked, Lives
<1>6. CASE StopLauncher
  BY <1>6 DEF StopLauncher, Step, Terminate, Unhandled, Shut, Dead, Locked, LauncherOn, Barrier,
     Calm, Active, Types, Owning, Lives
<1>7. CASE ReapReceipt
  BY <1>7 DEF ReapReceipt, Step, Close, Remove, Dead, NoOp, NoReceipt, NoPause, Alive, Barrier,
     Calm, Active, Types, Owning, Locked, Lives
<1>8. CASE ForceRunner
  BY <1>8 DEF ForceRunner, Step, Dead, Boundary, Holders, Locked, Barrier, Calm, Active, Types,
     Owning, Lives
<1>9. CASE ForceLauncher
  BY <1>9 DEF ForceLauncher, Step, Terminate, Unhandled, Shut, Dead, Locked, LauncherOn,
     Barrier, Calm, Active, Types, Owning, Lives
<1>10. CASE Undo
  BY <1>10 DEF Undo, Step, Terminate, Unhandled, Shut, Dead, Locked, LauncherOn, Barrier, Calm,
     Active, Types, Owning, Lives
<1>11. CASE Reap
  BY <1>11 DEF Reap, Step, Close, LauncherGone, Dead, Off, NoOp, NoPause, Locked, Alive,
     Barrier, Calm, Active, Types, Owning, Lives
<1>12. CASE Disown
  BY <1>12 DEF Disown, Close, Remove, Dead, NoOp, NoReceipt, NoPause, Barrier, Calm, Active,
     Types, Owning, Locked, Lives
<1>13. CASE StartupFails
  BY <1>13 DEF StartupFails, Dead, Barrier, Calm, Active, Types, Owning, Locked, Lives
<1>14. ASSUME NEW g \in Runners, ChildPublishes(g) PROVE Calm
  BY <1>14 DEF ChildPublishes, Dead, Barrier, IntentStands, Calm, Active, Types, Owning, Locked,
     Lives
<1>15. ASSUME NEW g \in Runners, Acquire(g) PROVE Calm
  BY <1>15 DEF Acquire, Holders, Locked, Barrier, Calm, Active, Types, Owning, Lives
<1>16. ASSUME NEW g \in Runners, Recover(g) PROVE Calm
  BY <1>16 DEF Recover, Barrier, Calm, Active, Types, Owning, Locked, Lives
<1>17. ASSUME NEW g \in Runners, Turn(g) PROVE Calm
  BY <1>17 DEF Turn, Acknowledged, Barrier, Calm, Active, Types, Owning, Locked, Lives
<1>18. ASSUME NEW g \in Runners, Claim(g) PROVE Calm
  BY <1>18 DEF Claim, Barrier, Calm, Active, Types, Owning, Locked, Lives
<1>19. ASSUME NEW g \in Runners, Begin(g) PROVE Calm
  BY <1>19 DEF Begin, Acknowledged, BarrierAppeared, Barrier, Calm, Active, Types, Owning,
     Locked, Lives
<1>20. ASSUME NEW g \in Runners, Finish(g) PROVE Calm
  BY <1>20 DEF Finish, Barrier, Calm, Active, Types, Owning, Locked, Lives
<1>21. ASSUME NEW g \in Runners, Leave(g) PROVE Calm
  BY <1>21 DEF Leave, Dead, Barrier, Calm, Active, Types, Owning, Locked, Lives
<1>22. ASSUME NEW g \in Runners, RunnerDies(g) PROVE Calm
  BY <1>22 DEF RunnerDies, Dead, Alive, Barrier, Calm, Active, Types, Owning, Locked, Lives
<1>23. CASE \/ Prepare \/ ClearFailed \/ ChildGone \/ Inherit \/ Bridge \/ LauncherExits
            \/ CheckStop \/ Quiesce \/ Pause \/ Await \/ AwaitLauncher \/ FreezeLauncher
            \/ Closing \/ StopGateway \/ Stopped \/ ForceCheck \/ CheckStart \/ Launch
            \/ Health \/ CheckRecovery \/ LauncherDies \/ Enqueue \/ GatewayDies \/ ShellStart
            \/ \E g \in Runners : Timer(g)
            \/ \E k \in {"stop", "force", "start", "recover"} : Open(k)
            \/ UNCHANGED vars
  <2>1. UNCHANGED <<life>>
    BY <1>23 DEF vars, Prepare, ClearFailed, ChildGone, Inherit, Bridge, LauncherExits,
       CheckStop, Quiesce, Pause, Await, AwaitLauncher, FreezeLauncher, Closing, StopGateway,
       Stopped, ForceCheck, CheckStart, Launch, Health, CheckRecovery, LauncherDies, Enqueue,
       GatewayDies, ShellStart, Timer, Open
  <2> QED BY <2>1 DEF Calm, Active, Types, Owning, Locked, Lives, Barrier
<1> QED BY <1>1, <1>2, <1>3, <1>4, <1>5, <1>6, <1>7, <1>8, <1>9, <1>10, <1>11, <1>12, <1>13,
    <1>14, <1>15, <1>16, <1>17, <1>18, <1>19, <1>20, <1>21, <1>22, <1>23 DEF Next, LauncherStep,
    RunnerStep, OpStep

\* The handler of SIGTERM ends the loop before it takes another job.
LEMMA DulledStep ==
  ASSUME Types, [Next]_vars
  PROVE  Dulled
<1>1. CASE Spawn
  BY <1>1 DEF Spawn, Dulled, Active, Types, Owning, Locked, Lives
<1>2. CASE ParentPublishes
  BY <1>2 DEF ParentPublishes, Dead, Dulled, Active, Types, Owning, Locked, Lives
<1>3. CASE GraceEnds
  BY <1>3 DEF GraceEnds, Dead, Alive, Dulled, Active, Types, Owning, Locked, Lives
<1>4. CASE Decide
  BY <1>4 DEF Decide, Close, Terminate, Unhandled, Dead, NoOp, NoPause, Locked, Dulled, Active,
     Types, Owning, Lives
<1>5. CASE AwaitRunner
  BY <1>5 DEF AwaitRunner, Step, Close, Dead, NoOp, NoPause, Alive, Dulled, Active, Types,
     Owning, Locked, Lives
<1>6. CASE StopLauncher
  BY <1>6 DEF StopLauncher, Step, Terminate, Unhandled, Shut, Dead, Locked, LauncherOn, Dulled,
     Active, Types, Owning, Lives
<1>7. CASE ReapReceipt
  BY <1>7 DEF ReapReceipt, Step, Close, Remove, Dead, NoOp, NoReceipt, NoPause, Alive, Dulled,
     Active, Types, Owning, Locked, Lives
<1>8. CASE ForceRunner
  BY <1>8 DEF ForceRunner, Step, Dead, Boundary, Holders, Locked, Dulled, Active, Types, Owning,
     Lives
<1>9. CASE ForceLauncher
  BY <1>9 DEF ForceLauncher, Step, Terminate, Unhandled, Shut, Dead, Locked, LauncherOn, Dulled,
     Active, Types, Owning, Lives
<1>10. CASE Undo
  BY <1>10 DEF Undo, Step, Terminate, Unhandled, Shut, Dead, Locked, LauncherOn, Dulled, Active,
     Types, Owning, Lives
<1>11. CASE Reap
  BY <1>11 DEF Reap, Step, Close, LauncherGone, Dead, Off, NoOp, NoPause, Locked, Alive, Dulled,
     Active, Types, Owning, Lives
<1>12. CASE Disown
  BY <1>12 DEF Disown, Close, Remove, Dead, NoOp, NoReceipt, NoPause, Dulled, Active, Types,
     Owning, Locked, Lives
<1>13. CASE StartupFails
  BY <1>13 DEF StartupFails, Dead, Dulled, Active, Types, Owning, Locked, Lives
<1>14. ASSUME NEW g \in Runners, ChildPublishes(g) PROVE Dulled
  BY <1>14 DEF ChildPublishes, Dead, IntentStands, Dulled, Active, Types, Owning, Locked, Lives
<1>15. ASSUME NEW g \in Runners, Acquire(g) PROVE Dulled
  BY <1>15 DEF Acquire, Holders, Locked, Dulled, Active, Types, Owning, Lives
<1>16. ASSUME NEW g \in Runners, Recover(g) PROVE Dulled
  BY <1>16 DEF Recover, Dulled, Active, Types, Owning, Locked, Lives
<1>17. ASSUME NEW g \in Runners, Turn(g) PROVE Dulled
  BY <1>17 DEF Turn, Acknowledged, Barrier, Dulled, Active, Types, Owning, Locked, Lives
<1>18. ASSUME NEW g \in Runners, Claim(g) PROVE Dulled
  BY <1>18 DEF Claim, Dulled, Active, Types, Owning, Locked, Lives
<1>19. ASSUME NEW g \in Runners, Begin(g) PROVE Dulled
  BY <1>19 DEF Begin, Acknowledged, BarrierAppeared, Barrier, Dulled, Active, Types, Owning,
     Locked, Lives
<1>20. ASSUME NEW g \in Runners, Finish(g) PROVE Dulled
  BY <1>20 DEF Finish, Dulled, Active, Types, Owning, Locked, Lives
<1>21. ASSUME NEW g \in Runners, Leave(g) PROVE Dulled
  BY <1>21 DEF Leave, Dead, Dulled, Active, Types, Owning, Locked, Lives
<1>22. ASSUME NEW g \in Runners, RunnerDies(g) PROVE Dulled
  BY <1>22 DEF RunnerDies, Dead, Alive, Dulled, Active, Types, Owning, Locked, Lives
<1>23. CASE \/ Prepare \/ ClearFailed \/ ChildGone \/ Inherit \/ Bridge \/ LauncherExits
            \/ CheckStop \/ Quiesce \/ Pause \/ Await \/ AwaitLauncher \/ FreezeLauncher
            \/ Closing \/ StopGateway \/ Stopped \/ ForceCheck \/ CheckStart \/ Launch
            \/ Health \/ CheckRecovery \/ LauncherDies \/ Enqueue \/ GatewayDies \/ ShellStart
            \/ \E g \in Runners : Timer(g)
            \/ \E k \in {"stop", "force", "start", "recover"} : Open(k)
            \/ UNCHANGED vars
  <2>1. UNCHANGED <<life>>
    BY <1>23 DEF vars, Prepare, ClearFailed, ChildGone, Inherit, Bridge, LauncherExits,
       CheckStop, Quiesce, Pause, Await, AwaitLauncher, FreezeLauncher, Closing, StopGateway,
       Stopped, ForceCheck, CheckStart, Launch, Health, CheckRecovery, LauncherDies, Enqueue,
       GatewayDies, ShellStart, Timer, Open
  <2> QED BY <2>1 DEF Dulled, Active, Types, Owning, Locked, Lives
<1> QED BY <1>1, <1>2, <1>3, <1>4, <1>5, <1>6, <1>7, <1>8, <1>9, <1>10, <1>11, <1>12, <1>13,
    <1>14, <1>15, <1>16, <1>17, <1>18, <1>19, <1>20, <1>21, <1>22, <1>23 DEF Next, LauncherStep,
    RunnerStep, OpStep

\* Only the shell a launcher is spawning begins a life.
LEMMA AgedStep ==
  ASSUME Types, [Next]_vars
  PROVE  Aged
<1>1. CASE Spawn
  BY <1>1 DEF Spawn, Aged, Types, Owning, Locked, Lives
<1>2. CASE ParentPublishes
  BY <1>2 DEF ParentPublishes, Dead, Aged, Types, Owning, Locked, Lives
<1>3. CASE GraceEnds
  BY <1>3 DEF GraceEnds, Dead, Alive, Aged, Types, Owning, Locked, Lives
<1>4. CASE Decide
  BY <1>4 DEF Decide, Close, Terminate, Unhandled, Dead, NoOp, NoPause, Locked, Aged, Types,
     Owning, Lives
<1>5. CASE AwaitRunner
  BY <1>5 DEF AwaitRunner, Step, Close, Dead, NoOp, NoPause, Alive, Aged, Types, Owning, Locked,
     Lives
<1>6. CASE StopLauncher
  BY <1>6 DEF StopLauncher, Step, Terminate, Unhandled, Shut, Dead, Locked, LauncherOn, Aged,
     Types, Owning, Lives
<1>7. CASE ReapReceipt
  BY <1>7 DEF ReapReceipt, Step, Close, Remove, Dead, NoOp, NoReceipt, NoPause, Alive, Aged,
     Types, Owning, Locked, Lives
<1>8. CASE ForceRunner
  BY <1>8 DEF ForceRunner, Step, Dead, Boundary, Holders, Locked, Aged, Types, Owning, Lives
<1>9. CASE ForceLauncher
  BY <1>9 DEF ForceLauncher, Step, Terminate, Unhandled, Shut, Dead, Locked, LauncherOn, Aged,
     Types, Owning, Lives
<1>10. CASE Undo
  BY <1>10 DEF Undo, Step, Terminate, Unhandled, Shut, Dead, Locked, LauncherOn, Aged, Types,
     Owning, Lives
<1>11. CASE Reap
  BY <1>11 DEF Reap, Step, Close, LauncherGone, Dead, Off, NoOp, NoPause, Locked, Alive, Aged,
     Types, Owning, Lives
<1>12. CASE Disown
  BY <1>12 DEF Disown, Close, Remove, Dead, NoOp, NoReceipt, NoPause, Aged, Types, Owning,
     Locked, Lives
<1>13. CASE StartupFails
  BY <1>13 DEF StartupFails, Dead, Aged, Types, Owning, Locked, Lives
<1>14. ASSUME NEW g \in Runners, ChildPublishes(g) PROVE Aged
  BY <1>14 DEF ChildPublishes, Dead, IntentStands, Aged, Types, Owning, Locked, Lives
<1>15. ASSUME NEW g \in Runners, Acquire(g) PROVE Aged
  BY <1>15 DEF Acquire, Holders, Locked, Aged, Types, Owning, Lives
<1>16. ASSUME NEW g \in Runners, Recover(g) PROVE Aged
  BY <1>16 DEF Recover, Aged, Types, Owning, Locked, Lives
<1>17. ASSUME NEW g \in Runners, Turn(g) PROVE Aged
  BY <1>17 DEF Turn, Acknowledged, Barrier, Aged, Types, Owning, Locked, Lives
<1>18. ASSUME NEW g \in Runners, Claim(g) PROVE Aged
  BY <1>18 DEF Claim, Aged, Types, Owning, Locked, Lives
<1>19. ASSUME NEW g \in Runners, Begin(g) PROVE Aged
  BY <1>19 DEF Begin, Acknowledged, BarrierAppeared, Barrier, Aged, Types, Owning, Locked, Lives
<1>20. ASSUME NEW g \in Runners, Finish(g) PROVE Aged
  BY <1>20 DEF Finish, Aged, Types, Owning, Locked, Lives
<1>21. ASSUME NEW g \in Runners, Leave(g) PROVE Aged
  BY <1>21 DEF Leave, Dead, Aged, Types, Owning, Locked, Lives
<1>22. ASSUME NEW g \in Runners, RunnerDies(g) PROVE Aged
  BY <1>22 DEF RunnerDies, Dead, Alive, Aged, Types, Owning, Locked, Lives
<1>23. CASE \/ Prepare \/ ClearFailed \/ ChildGone \/ Inherit \/ Bridge \/ LauncherExits
            \/ CheckStop \/ Quiesce \/ Pause \/ Await \/ AwaitLauncher \/ FreezeLauncher
            \/ Closing \/ StopGateway \/ Stopped \/ ForceCheck \/ CheckStart \/ Launch
            \/ Health \/ CheckRecovery \/ LauncherDies \/ Enqueue \/ GatewayDies \/ ShellStart
            \/ \E g \in Runners : Timer(g)
            \/ \E k \in {"stop", "force", "start", "recover"} : Open(k)
            \/ UNCHANGED vars
  <2>1. UNCHANGED <<life>>
    BY <1>23 DEF vars, Prepare, ClearFailed, ChildGone, Inherit, Bridge, LauncherExits,
       CheckStop, Quiesce, Pause, Await, AwaitLauncher, FreezeLauncher, Closing, StopGateway,
       Stopped, ForceCheck, CheckStart, Launch, Health, CheckRecovery, LauncherDies, Enqueue,
       GatewayDies, ShellStart, Timer, Open
  <2> QED BY <2>1 DEF Aged, Types, Owning, Locked, Lives
<1> QED BY <1>1, <1>2, <1>3, <1>4, <1>5, <1>6, <1>7, <1>8, <1>9, <1>10, <1>11, <1>12, <1>13,
    <1>14, <1>15, <1>16, <1>17, <1>18, <1>19, <1>20, <1>21, <1>22, <1>23 DEF Next, LauncherStep,
    RunnerStep, OpStep

\* Working is kept.
LEMMA WorkingStep ==
  ASSUME Types, Named, Owned, Working, [Next]_vars
  PROVE  Working'
<1>1. CASE Spawn
  BY <1>1 DEF Spawn, Types, Working
<1>2. CASE ParentPublishes
  BY <1>2 DEF ParentPublishes, Dead, Types, Working
<1>3. CASE GraceEnds
  BY <1>3 DEF GraceEnds, Dead, Alive, Types, Working
<1>4. CASE Decide
  BY <1>4 DEF Decide, Close, Terminate, Unhandled, Dead, NoOp, NoPause, Locked, Types, Working
<1>5. CASE AwaitRunner
  BY <1>5 DEF AwaitRunner, Step, Close, Dead, NoOp, NoPause, Alive, Types, Working
<1>6. CASE StopLauncher
  BY <1>6 DEF StopLauncher, Step, Terminate, Unhandled, Shut, Dead, Locked, LauncherOn, Types,
     Working
<1>7. CASE ReapReceipt
  BY <1>7 DEF ReapReceipt, Step, Close, Remove, Dead, NoOp, NoReceipt, NoPause, Alive, Types,
     Working
<1>8. CASE ForceRunner
  BY <1>8 DEF ForceRunner, Step, Dead, Boundary, Holders, Locked, Types, Working
<1>9. CASE ForceLauncher
  BY <1>9 DEF ForceLauncher, Step, Terminate, Unhandled, Shut, Dead, Locked, LauncherOn, Types,
     Working
<1>10. CASE ForceCheck
  BY <1>10 DEF ForceCheck, Close, FailedByForce, NoOp, NoPause, Holders, Locked, LauncherOn,
     Types, Working
<1>11. CASE Undo
  BY <1>11 DEF Undo, Step, Terminate, Unhandled, Shut, Dead, Locked, LauncherOn, Types, Working
<1>12. CASE Reap
  BY <1>12 DEF Reap, Step, Close, LauncherGone, Dead, Off, NoOp, NoPause, Locked, Alive, Types,
     Working
<1>13. CASE Disown
  BY <1>13 DEF Disown, Close, Remove, Dead, NoOp, NoReceipt, NoPause, Types, Working
<1>14. CASE StartupFails
  BY <1>14 DEF StartupFails, Dead, Types, Working
<1>15. CASE Enqueue
  BY <1>15 DEF Enqueue, Types, Working
<1>16. ASSUME NEW g \in Runners, ChildPublishes(g) PROVE Working'
  BY <1>16 DEF ChildPublishes, Dead, IntentStands, Types, Working
<1>17. ASSUME NEW g \in Runners, Acquire(g) PROVE Working'
  BY <1>17 DEF Acquire, Holders, Locked, Types, Working
<1>18. ASSUME NEW g \in Runners, Recover(g) PROVE Working'
  BY <1>18, Single DEF Recover, Working, Types, Owning, Locked
<1>19. ASSUME NEW g \in Runners, Turn(g) PROVE Working'
  BY <1>19 DEF Turn, Acknowledged, Barrier, Types, Working
<1>20. ASSUME NEW g \in Runners, Claim(g) PROVE Working'
  BY <1>20 DEF Claim, Types, Working
<1>21. ASSUME NEW g \in Runners, Begin(g) PROVE Working'
  BY <1>21, Single DEF Begin, Working, Types, Owning, Locked, BarrierAppeared
<1>22. ASSUME NEW g \in Runners, Finish(g) PROVE Working'
  BY <1>22, Single DEF Finish, Working, Types, Owning, Locked
<1>23. ASSUME NEW g \in Runners, Leave(g) PROVE Working'
  BY <1>23 DEF Leave, Dead, Types, Working
<1>24. ASSUME NEW g \in Runners, RunnerDies(g) PROVE Working'
  BY <1>24 DEF RunnerDies, Dead, Alive, Types, Working
<1>25. CASE \/ Prepare \/ ClearFailed \/ ChildGone \/ Inherit \/ Bridge \/ LauncherExits
            \/ CheckStop \/ Quiesce \/ Pause \/ Await \/ AwaitLauncher \/ FreezeLauncher
            \/ Closing \/ StopGateway \/ Stopped \/ CheckStart \/ Launch \/ Health
            \/ CheckRecovery \/ LauncherDies \/ GatewayDies \/ ShellStart
            \/ \E g \in Runners : Timer(g)
            \/ \E k \in {"stop", "force", "start", "recover"} : Open(k)
            \/ UNCHANGED vars
  <2>1. UNCHANGED <<life, job>>
    BY <1>25 DEF vars, Prepare, ClearFailed, ChildGone, Inherit, Bridge, LauncherExits,
       CheckStop, Quiesce, Pause, Await, AwaitLauncher, FreezeLauncher, Closing, StopGateway,
       Stopped, CheckStart, Launch, Health, CheckRecovery, LauncherDies, GatewayDies,
       ShellStart, Timer, Open
  <2> QED BY <2>1 DEF Types, Working
<1> QED BY <1>1, <1>2, <1>3, <1>4, <1>5, <1>6, <1>7, <1>8, <1>9, <1>10, <1>11, <1>12, <1>13,
    <1>14, <1>15, <1>16, <1>17, <1>18, <1>19, <1>20, <1>21, <1>22, <1>23, <1>24, <1>25 DEF Next,
    LauncherStep, RunnerStep, OpStep

\* OwnerIsLive is kept.
LEMMA OwnerStep ==
  ASSUME Types, Named, Owned, FailedIsDead, OwnerIsLive, [Next]_vars
  PROVE  OwnerIsLive'
<1>1. CASE Prepare
  BY <1>1 DEF Prepare, Holders, Locked, LauncherOn, Types, OwnerIsLive, Receipts, Launches
<1>2. CASE Spawn
  BY <1>2 DEF Spawn, LauncherOn, Types, OwnerIsLive, Receipts, Launches
<1>3. CASE ParentPublishes
  BY <1>3 DEF ParentPublishes, Dead, LauncherOn, Types, OwnerIsLive, Receipts, Launches
<1>4. CASE ClearFailed
  BY <1>4 DEF ClearFailed, Remove, NoReceipt, LauncherOn, Types, OwnerIsLive, Receipts, Launches
<1>5. CASE ChildGone
  BY <1>5 DEF ChildGone, Remove, Off, NoReceipt, Alive, LauncherOn, Types, OwnerIsLive,
     Receipts, Launches
<1>6. CASE Inherit
  <2>1. CASE Remove /\ UNCHANGED launch
    BY <1>6, <2>1 DEF Inherit, Remove, NoReceipt, OwnerIsLive, LauncherOn
  <2>2. CASE /\ receipt.state = "published"
             /\ launch' = [launch EXCEPT !.step = "adopt", !.child = receipt.runner]
             /\ UNCHANGED receipt
    BY <1>6, <2>2 DEF Inherit, OwnerIsLive, Types, Launches, LauncherOn
  <2>3. CASE launch' = [launch EXCEPT !.step = "bridge"] /\ UNCHANGED receipt
    BY <1>6, <2>3 DEF Inherit, OwnerIsLive, Types, Launches, LauncherOn
  <2> QED BY <1>6, <2>1, <2>2, <2>3 DEF Inherit
<1>7. CASE Bridge
  BY <1>7 DEF Bridge, Withdrawn, NoReceipt, LauncherOn, Types, OwnerIsLive, Receipts, Launches
<1>8. CASE LauncherExits
  BY <1>8 DEF LauncherExits, LauncherGone, Off, LauncherOn, Types, OwnerIsLive, Receipts,
     Launches
<1>9. CASE StopLauncher
  BY <1>9 DEF StopLauncher, Step, Terminate, Unhandled, Shut, Dead, Locked, LauncherOn, Types,
     OwnerIsLive, Receipts, Launches
<1>10. CASE AwaitLauncher
  BY <1>10 DEF AwaitLauncher, Step, Close, LauncherGone, Off, NoOp, NoPause, LauncherOn, Types,
     OwnerIsLive, Receipts, Launches
<1>11. CASE FreezeLauncher
  BY <1>11 DEF FreezeLauncher, Step, LauncherGone, Off, LauncherOn, Types, OwnerIsLive,
     Receipts, Launches
<1>12. CASE ReapReceipt
  BY <1>12 DEF ReapReceipt, Step, Close, Remove, Dead, NoOp, NoReceipt, NoPause, Alive,
     LauncherOn, Types, OwnerIsLive, Receipts, Launches
<1>13. CASE ForceLauncher
  BY <1>13 DEF ForceLauncher, Step, Terminate, Unhandled, Shut, Dead, Locked, LauncherOn, Types,
     OwnerIsLive, Receipts, Launches
<1>14. CASE Launch
  BY <1>14 DEF Launch, Step, Off, LauncherOn, Types, OwnerIsLive, Receipts, Launches
<1>15. CASE Undo
  BY <1>15 DEF Undo, Step, Terminate, Unhandled, Shut, Dead, Locked, LauncherOn, Types,
     OwnerIsLive, Receipts, Launches
<1>16. CASE Reap
  BY <1>16 DEF Reap, Step, Close, LauncherGone, Dead, Off, NoOp, NoPause, Locked, Alive,
     LauncherOn, Types, OwnerIsLive, Receipts, Launches
<1>17. CASE Disown
  BY <1>17 DEF Disown, Close, Remove, Dead, NoOp, NoReceipt, NoPause, LauncherOn, Types,
     OwnerIsLive, Receipts, Launches
<1>18. CASE StartupFails
  BY <1>18 DEF StartupFails, Dead, LauncherOn, Types, OwnerIsLive, Receipts, Launches
<1>19. CASE LauncherDies
  BY <1>19 DEF LauncherDies, LauncherGone, Off, LauncherOn, Types, OwnerIsLive, Receipts,
     Launches
<1>20. CASE ShellStart
  BY <1>20 DEF ShellStart, Off, Holders, Locked, LauncherOn, Barrier, Types, OwnerIsLive,
     Receipts, Launches
<1>21. ASSUME NEW g \in Runners, ChildPublishes(g) PROVE OwnerIsLive'
  BY <1>21 DEF ChildPublishes, Dead, LauncherOn, IntentStands, Types, OwnerIsLive, Receipts,
     Launches
<1>22. CASE \/ GraceEnds \/ CheckStop \/ Quiesce \/ Pause \/ Await \/ Decide
            \/ AwaitRunner \/ Closing \/ StopGateway \/ Stopped \/ ForceRunner \/ ForceCheck
            \/ CheckStart \/ Health \/ CheckRecovery \/ Enqueue \/ GatewayDies
            \/ \E g \in Runners :
               \/ Acquire(g) \/ Recover(g) \/ Turn(g) \/ Claim(g) \/ Begin(g)
               \/ Finish(g) \/ Leave(g) \/ Timer(g) \/ RunnerDies(g)
            \/ \E k \in {"stop", "force", "start", "recover"} : Open(k)
            \/ UNCHANGED vars
  <2>1. UNCHANGED <<receipt, launch>>
    BY <1>22 DEF vars, GraceEnds, CheckStop, Quiesce, Pause, Await, Decide, AwaitRunner,
       Closing, StopGateway, Stopped, ForceRunner, ForceCheck, CheckStart, Health,
       CheckRecovery, Enqueue, GatewayDies, Acquire, Recover, Turn, Claim, Begin, Finish, Leave,
       Timer, RunnerDies, Open
  <2> QED BY <2>1 DEF Types, OwnerIsLive, Receipts, Launches, LauncherOn
<1> QED BY <1>1, <1>2, <1>3, <1>4, <1>5, <1>6, <1>7, <1>8, <1>9, <1>10, <1>11, <1>12, <1>13,
    <1>14, <1>15, <1>16, <1>17, <1>18, <1>19, <1>20, <1>21, <1>22 DEF Next, LauncherStep,
    RunnerStep, OpStep

\* During an operation: nobody joins those at a job.
LEMMA Settled ==
  ASSUME Types, Stages, [Next]_vars, op.step # "none"
  PROVE  /\ NoneActive => NoneActive'
         /\ OnlyTarget /\ op'.target = op.target => OnlyTarget'
         /\ NoneWorks => NoneWorks'
         /\ Holders = {} => NoneActive'
         /\ Owned => \A g \in Holders : op'.target = g => OnlyTarget'
<1>1. Barrier
  BY DEF Barrier, Stages
<1>2. Calm
  BY CalmStep
<1>3. \A g \in Runners : life[g] \in Active => g \in Holders
  BY DEF Holders, Active, Locked
<1>4. Owned => \A g \in Holders, h \in Runners : life[h] \in Active => h = g
  BY <1>3, Single DEF Holders, Owning
<1> QED BY <1>1, <1>2, <1>3, <1>4, HoldersFit DEF Calm, NoneActive, OnlyTarget, NoneWorks

\* StopsAreStill is kept.
LEMMA StopsAreStillStep ==
  ASSUME Types, Stages, StopsAreStill, TargetStops, Owned, Named, [Next]_vars
  PROVE  StopsAreStill'
<1>1. CASE CheckStop
  BY <1>1, CheckStopMoves, Settled DEF Ended, Moves, StopsAreStill, Stages
<1>2. CASE Quiesce
  BY <1>2, QuiesceMoves, Settled DEF Moves, StopsAreStill, Stages
<1>3. CASE Pause
  BY <1>3, PauseMoves, Settled DEF Moves, StopsAreStill, Stages
<1>4. CASE Await
  <2>1. Holders = {} => NoneActive'
    BY <1>4, Settled DEF Await
  <2> QED BY <2>1, <1>4, AwaitMoves, Settled DEF Ended, Moves, StopsAreStill, Stages
<1>5. CASE Decide
  BY <1>5, DecideMoves, Settled DEF Ended, Moves, StopsAreStill, Stages
<1>6. CASE AwaitRunner
  <2>1. ~Alive(op.target) /\ OnlyTarget => NoneActive
    BY NamedForm DEF Alive, OnlyTarget, NoneActive, Active
  <2> QED BY <2>1, <1>6, AwaitRunnerMoves, Settled DEF Ended, Moves, StopsAreStill, TargetStops,
      Stages
<1>7. CASE StopLauncher
  BY <1>7, StopLauncherMoves, Settled DEF Moves, StopsAreStill, Stages
<1>8. CASE AwaitLauncher
  BY <1>8, AwaitLauncherMoves, Settled DEF Ended, Moves, StopsAreStill, Stages
<1>9. CASE FreezeLauncher
  BY <1>9, FreezeLauncherMoves, Settled DEF Moves, StopsAreStill, Stages, ForceSteps
<1>10. CASE ReapReceipt
  BY <1>10, ReapReceiptMoves, Settled DEF Ended, Moves, StopsAreStill, Stages
<1>11. CASE Closing
  BY <1>11, ClosingMoves, Settled DEF Ended, Moves, StopsAreStill, Stages
<1>12. CASE StopGateway
  BY <1>12, StopGatewayMoves, Settled DEF Moves, StopsAreStill, Stages
<1>13. CASE Stopped
  BY <1>13, StoppedMoves, Settled DEF Ended, StopsAreStill, Stages
<1>14. CASE ForceRunner
  <2>1. NoneActive'
    <3>1. CASE Holders = {}
      BY <1>14, <3>1, Settled DEF ForceRunner
    <3>2. CASE life' = Dead(Holders)
      BY <3>2 DEF Dead, NoneActive, Holders, Active, Locked
    <3> QED BY <1>14, <3>1, <3>2 DEF ForceRunner
  <2> QED BY <2>1, <1>14 DEF StopsAreStill
<1>15. CASE ForceLauncher
  BY <1>15, ForceLauncherMoves, Settled DEF Moves, StopsAreStill, Stages
<1>16. CASE ForceCheck
  BY <1>16, ForceCheckMoves, Settled DEF Ended, Moves, StopsAreStill, Stages
<1>17. CASE CheckStart
  BY <1>17, CheckStartMoves, Settled DEF Ended, Moves, StopsAreStill, Stages
<1>18. CASE Launch
  BY <1>18, LaunchMoves, Settled DEF Moves, StopsAreStill, Stages
<1>19. CASE Health
  BY <1>19, HealthMoves, Settled DEF Ended, Moves, StopsAreStill, Stages
<1>20. CASE Undo
  BY <1>20, UndoMoves, Settled DEF Moves, StopsAreStill, Stages
<1>21. CASE Reap
  BY <1>21, ReapMoves, Settled DEF Ended, Moves, StopsAreStill, Stages
<1>22. CASE Disown
  BY <1>22, DisownMoves, Settled DEF Ended, StopsAreStill, Stages
<1>23. CASE CheckRecovery
  BY <1>23, CheckRecoveryMoves, Settled DEF Ended, Moves, StopsAreStill, Stages
<1>24. ASSUME NEW k \in {"stop", "force", "start", "recover"}, Open(k)
      PROVE  StopsAreStill'
  BY <1>24, Settled DEF Open, NoOp, Barrier, StopsAreStill, Stages
<1>25. CASE \/ Prepare \/ Spawn \/ ParentPublishes \/ ClearFailed \/ ChildGone \/ Inherit
            \/ Bridge \/ LauncherExits \/ GraceEnds \/ StartupFails \/ LauncherDies \/ Enqueue
            \/ GatewayDies \/ ShellStart
            \/ \E g \in Runners :
               \/ ChildPublishes(g) \/ Acquire(g) \/ Recover(g) \/ Turn(g) \/ Claim(g)
               \/ Begin(g) \/ Finish(g) \/ Leave(g) \/ Timer(g) \/ RunnerDies(g)
            \/ UNCHANGED vars
  <2>1. UNCHANGED <<op>>
    BY <1>25 DEF vars, Prepare, Spawn, ParentPublishes, ClearFailed, ChildGone, Inherit, Bridge,
       LauncherExits, GraceEnds, StartupFails, LauncherDies, Enqueue, GatewayDies, ShellStart,
       ChildPublishes, Acquire, Recover, Turn, Claim, Begin, Finish, Leave, Timer, RunnerDies
  <2> QED BY <2>1, Settled DEF StopsAreStill, Stages
<1> QED BY <1>1, <1>2, <1>3, <1>4, <1>5, <1>6, <1>7, <1>8, <1>9, <1>10, <1>11, <1>12, <1>13,
    <1>14, <1>15, <1>16, <1>17, <1>18, <1>19, <1>20, <1>21, <1>22, <1>23, <1>24, <1>25 DEF Next,
    LauncherStep, RunnerStep, OpStep

\* TargetStops is kept.
LEMMA TargetStep ==
  ASSUME Types, Stages, TargetStops, Working, Owned, Named, [Next]_vars
  PROVE  TargetStops'
<1>1. CASE CheckStop
  BY <1>1, CheckStopMoves, Settled DEF Ended, Moves, TargetStops, Stages
<1>2. CASE Quiesce
  BY <1>2, QuiesceMoves, Settled DEF Moves, TargetStops, Stages
<1>3. CASE Pause
  BY <1>3, PauseMoves, Settled DEF Moves, TargetStops, Stages
<1>4. CASE Await
  BY <1>4, AwaitMoves, Settled DEF Ended, Moves, TargetStops, Stages
<1>5. CASE Decide
  <2>1. job # "running" => NoneWorks
    BY DEF Working, NoneWorks
  <2> QED BY <2>1, <1>5, DecideMoves, Settled DEF Ended, Moves, TargetStops, Stages
<1>6. CASE AwaitRunner
  BY <1>6, AwaitRunnerMoves, Settled DEF Ended, Moves, TargetStops, Stages
<1>7. CASE StopLauncher
  BY <1>7, StopLauncherMoves, Settled DEF Moves, TargetStops, Stages
<1>8. CASE AwaitLauncher
  BY <1>8, AwaitLauncherMoves, Settled DEF Ended, Moves, TargetStops, Stages
<1>9. CASE FreezeLauncher
  BY <1>9, FreezeLauncherMoves, Settled DEF Moves, TargetStops, Stages
<1>10. CASE ReapReceipt
  BY <1>10, ReapReceiptMoves, Settled DEF Ended, Moves, TargetStops, Stages
<1>11. CASE Closing
  BY <1>11, ClosingMoves, Settled DEF Ended, Moves, TargetStops, Stages
<1>12. CASE StopGateway
  BY <1>12, StopGatewayMoves, Settled DEF Moves, TargetStops, Stages
<1>13. CASE Stopped
  BY <1>13, StoppedMoves, Settled DEF Ended, TargetStops, Stages
<1>14. CASE ForceRunner
  BY <1>14, ForceRunnerMoves, Settled DEF Moves, TargetStops, Stages
<1>15. CASE ForceLauncher
  BY <1>15, ForceLauncherMoves, Settled DEF Moves, TargetStops, Stages
<1>16. CASE ForceCheck
  BY <1>16, ForceCheckMoves, Settled DEF Ended, Moves, TargetStops, Stages
<1>17. CASE CheckStart
  BY <1>17, CheckStartMoves, Settled DEF Ended, Moves, TargetStops, Stages
<1>18. CASE Launch
  BY <1>18, LaunchMoves, Settled DEF Moves, TargetStops, Stages
<1>19. CASE Health
  BY <1>19, HealthMoves, Settled DEF Ended, Moves, TargetStops, Stages
<1>20. CASE Undo
  BY <1>20, UndoMoves, Settled DEF Moves, TargetStops, Stages
<1>21. CASE Reap
  BY <1>21, ReapMoves, Settled DEF Ended, Moves, TargetStops, Stages
<1>22. CASE Disown
  BY <1>22, DisownMoves, Settled DEF Ended, TargetStops, Stages
<1>23. CASE CheckRecovery
  BY <1>23, CheckRecoveryMoves, Settled DEF Ended, Moves, TargetStops, Stages
<1>24. ASSUME NEW k \in {"stop", "force", "start", "recover"}, Open(k)
      PROVE  TargetStops'
  BY <1>24, Settled DEF Open, NoOp, Barrier, TargetStops, Stages
<1>25. CASE \/ Prepare \/ Spawn \/ ParentPublishes \/ ClearFailed \/ ChildGone \/ Inherit
            \/ Bridge \/ LauncherExits \/ GraceEnds \/ StartupFails \/ LauncherDies \/ Enqueue
            \/ GatewayDies \/ ShellStart
            \/ \E g \in Runners :
               \/ ChildPublishes(g) \/ Acquire(g) \/ Recover(g) \/ Turn(g) \/ Claim(g)
               \/ Begin(g) \/ Finish(g) \/ Leave(g) \/ Timer(g) \/ RunnerDies(g)
            \/ UNCHANGED vars
  <2>1. UNCHANGED <<op>>
    BY <1>25 DEF vars, Prepare, Spawn, ParentPublishes, ClearFailed, ChildGone, Inherit, Bridge,
       LauncherExits, GraceEnds, StartupFails, LauncherDies, Enqueue, GatewayDies, ShellStart,
       ChildPublishes, Acquire, Recover, Turn, Claim, Begin, Finish, Leave, Timer, RunnerDies
  <2> QED BY <2>1, Settled DEF TargetStops, Stages
<1> QED BY <1>1, <1>2, <1>3, <1>4, <1>5, <1>6, <1>7, <1>8, <1>9, <1>10, <1>11, <1>12, <1>13,
    <1>14, <1>15, <1>16, <1>17, <1>18, <1>19, <1>20, <1>21, <1>22, <1>23, <1>24, <1>25 DEF Next,
    LauncherStep, RunnerStep, OpStep

\* OnlyFound is kept.
LEMMA OnlyFoundStep ==
  ASSUME Types, Stages, Owned, Named, OnlyFound, [Next]_vars
  PROVE  OnlyFound'
<1>1. CASE CheckStop
  BY <1>1, CheckStopMoves, Settled DEF Ended, Moves, OnlyFound, Repairing, Stages
<1>2. CASE Quiesce
  BY <1>2, QuiesceMoves, Settled DEF Moves, OnlyFound, Repairing, Stages
<1>3. CASE Pause
  BY <1>3, PauseMoves, Settled DEF Moves, OnlyFound, Repairing, Stages
<1>4. CASE Await
  BY <1>4, AwaitMoves, Settled DEF Ended, Moves, OnlyFound, Repairing, Stages
<1>5. CASE Decide
  BY <1>5, DecideMoves, Settled DEF Ended, Moves, OnlyFound, Repairing, Stages
<1>6. CASE AwaitRunner
  BY <1>6, AwaitRunnerMoves, Settled DEF Ended, Moves, OnlyFound, Repairing, Stages
<1>7. CASE StopLauncher
  BY <1>7, StopLauncherMoves, Settled DEF Moves, OnlyFound, Repairing, Stages
<1>8. CASE AwaitLauncher
  BY <1>8, AwaitLauncherMoves, Settled DEF Ended, Moves, OnlyFound, Repairing, Stages
<1>9. CASE FreezeLauncher
  BY <1>9, FreezeLauncherMoves, Settled DEF Moves, OnlyFound, Repairing, Stages
<1>10. CASE ReapReceipt
  BY <1>10, ReapReceiptMoves, Settled DEF Ended, Moves, OnlyFound, Repairing, Stages
<1>11. CASE Closing
  BY <1>11, ClosingMoves, Settled DEF Ended, Moves, OnlyFound, Repairing, Stages
<1>12. CASE StopGateway
  BY <1>12, StopGatewayMoves, Settled DEF Moves, OnlyFound, Repairing, Stages
<1>13. CASE Stopped
  BY <1>13, StoppedMoves, Settled DEF Ended, OnlyFound, Repairing, Stages
<1>14. CASE ForceRunner
  BY <1>14, ForceRunnerMoves, Settled DEF Moves, OnlyFound, Repairing, Stages
<1>15. CASE ForceLauncher
  BY <1>15, ForceLauncherMoves, Settled DEF Moves, OnlyFound, Repairing, Stages
<1>16. CASE ForceCheck
  BY <1>16, ForceCheckMoves, Settled DEF Ended, Moves, OnlyFound, Repairing, Stages
<1>17. CASE CheckStart
  <2>3. op.step = "check"
    BY <1>17 DEF CheckStart
  <2>4. OnlyTarget' \/ Ended
    <3>1. CASE \E g \in Holders : Moves("repair", op.back, g, op.round)
      BY <2>3, <3>1, Settled DEF Moves
    <3>2. CASE Holders = {}
      BY <2>3, <3>2, Settled DEF NoneActive, OnlyTarget
    <3> QED BY <1>17, <3>1, <3>2, CheckStartMoves
  <2> QED BY <2>4 DEF OnlyFound, Repairing, Ended
<1>18. CASE Launch
  BY <1>18, LaunchMoves, Settled DEF Ended, Moves, OnlyFound, Repairing, Stages
<1>19. CASE Health
  BY <1>19, HealthMoves, Settled DEF Ended, Moves, OnlyFound, Repairing, Stages
<1>20. CASE Undo
  BY <1>20, UndoMoves, Settled DEF Ended, Moves, OnlyFound, Repairing, Stages
<1>21. CASE Reap
  BY <1>21, ReapMoves, Settled DEF Ended, Moves, OnlyFound, Repairing, Stages
<1>22. CASE Disown
  BY <1>22, DisownMoves, Settled DEF Ended, Moves, OnlyFound, Repairing, Stages
<1>23. CASE CheckRecovery
  BY <1>23, CheckRecoveryMoves, Settled DEF Ended, Moves, OnlyFound, Repairing, Stages
<1>24. ASSUME NEW k \in {"stop", "force", "start", "recover"}, Open(k)
      PROVE  OnlyFound'
  BY <1>24, Settled DEF Open, NoOp, Barrier, OnlyFound, Repairing, Stages
<1>25. CASE \/ Prepare \/ Spawn \/ ParentPublishes \/ ClearFailed \/ ChildGone \/ Inherit
            \/ Bridge \/ LauncherExits \/ GraceEnds \/ StartupFails \/ LauncherDies \/ Enqueue
            \/ GatewayDies \/ ShellStart
            \/ \E g \in Runners :
               \/ ChildPublishes(g) \/ Acquire(g) \/ Recover(g) \/ Turn(g) \/ Claim(g)
               \/ Begin(g) \/ Finish(g) \/ Leave(g) \/ Timer(g) \/ RunnerDies(g)
            \/ UNCHANGED vars
  <2>1. UNCHANGED <<op>>
    BY <1>25 DEF vars, Prepare, Spawn, ParentPublishes, ClearFailed, ChildGone, Inherit, Bridge,
       LauncherExits, GraceEnds, StartupFails, LauncherDies, Enqueue, GatewayDies, ShellStart,
       ChildPublishes, Acquire, Recover, Turn, Claim, Begin, Finish, Leave, Timer, RunnerDies
  <2> QED BY <2>1, Settled DEF OnlyFound, Repairing, Stages
<1> QED BY <1>1, <1>2, <1>3, <1>4, <1>5, <1>6, <1>7, <1>8, <1>9, <1>10, <1>11, <1>12, <1>13,
    <1>14, <1>15, <1>16, <1>17, <1>18, <1>19, <1>20, <1>21, <1>22, <1>23, <1>24, <1>25 DEF Next,
    LauncherStep, RunnerStep, OpStep

\* What a step has to leave alone for Found to be kept.
LEMMA FoundKept ==
  ASSUME Types, Named, Found, [Next]_vars, Repairing, op.target # 0, op'.target = op.target,
         Alive(op.target) => receipt'.owner = "dead" /\ op'.step # "disown",
         op'.step = "repair" => ~LauncherOn',
         LauncherOn' => launch'.child # op.target
  PROVE  Found'
<1>1. op.target \in Runners
  BY RunnerServiceAssumption DEF Types, Ops, Runners
<1>2. launch.step # "spawn" \/ launch.child # op.target
  BY DEF Found, LauncherOn
<1>3. /\ life'[op.target] \in Locked \cup {"dead"}
      /\ life[op.target] = "dead" => life'[op.target] = "dead"
  BY <1>1, <1>2, AgedStep DEF Aged, Found
<1>4. Alive(op.target)' => Alive(op.target)
  BY <1>3 DEF Alive, Found, Locked
<1> QED BY <1>3, <1>4 DEF Found, Alive

\* Found is kept.
LEMMA FoundStep ==
  ASSUME Types, Stages, Named, Owned, OwnerIsLive, Found, [Next]_vars
  PROVE  Found'
<1>1. CASE Prepare
  <2> SUFFICES ASSUME Repairing', op'.target # 0
               PROVE  Found'
    BY DEF Found
  <2>1. UNCHANGED op /\ Repairing /\ op.target # 0
    BY <1>1 DEF Prepare, Repairing
  <2>2. Alive(op.target) => op.target \in Holders
    BY <2>1, RunnerServiceAssumption DEF Found, Holders, Alive, Types, Ops, Runners
  <2>3. ~Alive(op.target) /\ life[op.target] = "dead"
    BY <2>2, <2>1, <1>1 DEF Prepare, Found, Alive, Locked
  <2>4. launch'.child # op.target
    <3>1. PICK g \in Runners :
            life[g] = "none" /\ launch' = [launch EXCEPT !.step = "spawn", !.child = g]
      BY <1>1 DEF Prepare
    <3>2. launch'.child = g
      BY <3>1 DEF Types, Launches
    <3>3. g # op.target
      BY <2>3, <3>1
    <3> QED BY <3>2, <3>3
  <2>5. op'.step # "repair"
    BY <2>1, <1>1 DEF Prepare, Found, LauncherOn
  <2> QED BY <2>1, <2>3, <2>4, <2>5, FoundKept
<1>2. CASE Spawn
  BY <1>2, FoundKept DEF Spawn, Alive, LauncherOn, Found, Repairing, Stages
<1>3. CASE ParentPublishes
  <2> SUFFICES ASSUME Repairing', op'.target # 0
               PROVE  Found'
    BY DEF Found
  <2>1. UNCHANGED op /\ Repairing /\ op.target # 0
    BY <1>3 DEF ParentPublishes, Repairing
  <2>2. receipt'.owner = receipt.owner /\ launch'.child = launch.child /\ LauncherOn
    BY <1>3 DEF ParentPublishes, Types, Receipts, Launches, LauncherOn
  <2> QED BY <2>1, <2>2, <1>3, FoundKept DEF ParentPublishes, Found
<1>4. CASE ClearFailed
  BY <1>4, FoundKept DEF ClearFailed, Remove, NoReceipt, Alive, LauncherOn, Found, Repairing,
     Stages
<1>5. CASE ChildGone
  BY <1>5, FoundKept DEF ChildGone, Remove, Off, NoReceipt, Alive, LauncherOn, Found, Repairing,
     Stages
<1>6. CASE Inherit
  <2> SUFFICES ASSUME Repairing', op'.target # 0
               PROVE  Found'
    BY DEF Found
  <2>1. UNCHANGED op /\ Repairing /\ op.target # 0
    BY <1>6 DEF Inherit, Repairing
  <2>2. Alive(op.target) => op.target \in Holders
    BY <2>1, RunnerServiceAssumption DEF Found, Holders, Alive, Types, Ops, Runners
  <2>3. ~Alive(op.target) /\ LauncherOn /\ launch.child # op.target
    BY <2>2, <2>1, <1>6 DEF Inherit, Found, Alive, LauncherOn
  <2>4. launch'.child # op.target
    <3>1. CASE UNCHANGED launch
      BY <2>3, <3>1
    <3>2. CASE /\ Alive(receipt.runner)
               /\ launch' = [launch EXCEPT !.step = "adopt", !.child = receipt.runner]
      BY <2>3, <3>2 DEF Types, Launches
    <3>3. CASE launch' = [launch EXCEPT !.step = "bridge"]
      BY <2>3, <3>3 DEF Types, Launches
    <3> QED BY <1>6, <3>1, <3>2, <3>3 DEF Inherit
  <2>5. op'.step # "repair"
    BY <2>1, <2>3, <1>6 DEF Found, Inherit
  <2> QED BY <2>1, <2>3, <2>4, <2>5, <1>6, FoundKept DEF Inherit, Found
<1>7. CASE Bridge
  BY <1>7, FoundKept DEF Bridge, Withdrawn, NoReceipt, Alive, LauncherOn, Found, Repairing,
     Stages
<1>8. CASE LauncherExits
  BY <1>8, FoundKept DEF LauncherExits, LauncherGone, Off, Alive, LauncherOn, Found, Repairing,
     Stages
<1>9. CASE GraceEnds
  BY <1>9, FoundKept DEF GraceEnds, Dead, Alive, LauncherOn, Found, Repairing, Stages
<1>10. CASE CheckStop
  <2>1. UNCHANGED <<life, receipt, launch>>
    BY <1>10 DEF CheckStop
  <2> QED BY <2>1, <1>10, CheckStopMoves, FoundKept DEF Ended, Moves, Found, Repairing, Stages,
      LauncherOn, Alive
<1>11. CASE Quiesce
  <2>1. UNCHANGED <<life, receipt, launch>>
    BY <1>11 DEF Quiesce
  <2> QED BY <2>1, <1>11, QuiesceMoves, FoundKept DEF Moves, Found, Repairing, Stages,
      LauncherOn, Alive
<1>12. CASE Pause
  <2>1. UNCHANGED <<life, receipt, launch>>
    BY <1>12 DEF Pause
  <2> QED BY <2>1, <1>12, PauseMoves, FoundKept DEF Moves, Found, Repairing, Stages, LauncherOn,
      Alive
<1>13. CASE Await
  <2>1. UNCHANGED <<life, receipt, launch>>
    BY <1>13 DEF Await
  <2> QED BY <2>1, <1>13, AwaitMoves, FoundKept DEF Ended, Moves, Found, Repairing, Stages,
      LauncherOn, Alive
<1>14. CASE Decide
  BY <1>14, DecideMoves, FoundKept DEF Decide, Close, Terminate, Unhandled, Dead, NoPause,
     Locked, Ended, Moves, Found, Repairing, Stages, LauncherOn, Alive
<1>15. CASE AwaitRunner
  BY <1>15, AwaitRunnerMoves, FoundKept DEF AwaitRunner, Close, Dead, NoPause, Alive, Ended,
     Moves, Found, Repairing, Stages, LauncherOn
<1>16. CASE StopLauncher
  BY <1>16, StopLauncherMoves, FoundKept DEF StopLauncher, Terminate, Unhandled, Shut, Dead,
     Locked, LauncherOn, Moves, Found, Repairing, Stages, Alive
<1>17. CASE AwaitLauncher
  BY <1>17, AwaitLauncherMoves, FoundKept DEF AwaitLauncher, Close, LauncherGone, Off, NoPause,
     LauncherOn, Ended, Moves, Found, Repairing, Stages, Alive
<1>18. CASE FreezeLauncher
  BY <1>18, FreezeLauncherMoves, FoundKept DEF FreezeLauncher, LauncherGone, Off, Moves, Found,
     Repairing, Stages, LauncherOn, Alive
<1>19. CASE ReapReceipt
  BY <1>19, ReapReceiptMoves, FoundKept DEF ReapReceipt, Close, Remove, Dead, NoReceipt,
     NoPause, Alive, Ended, Moves, Found, Repairing, Stages, LauncherOn
<1>20. CASE Closing
  <2>1. UNCHANGED <<life, receipt, launch>>
    BY <1>20 DEF Closing
  <2> QED BY <2>1, <1>20, ClosingMoves, FoundKept DEF Ended, Moves, Found, Repairing, Stages,
      LauncherOn, Alive
<1>21. CASE StopGateway
  <2>1. UNCHANGED <<life, receipt, launch>>
    BY <1>21 DEF StopGateway
  <2> QED BY <2>1, <1>21, StopGatewayMoves, FoundKept DEF Moves, Found, Repairing, Stages,
      LauncherOn, Alive
<1>22. CASE Stopped
  <2>1. UNCHANGED <<life, receipt, launch>>
    BY <1>22 DEF Stopped
  <2> QED BY <2>1, <1>22, StoppedMoves, FoundKept DEF Ended, Found, Repairing, Stages,
      LauncherOn, Alive
<1>23. CASE ForceRunner
  BY <1>23, ForceRunnerMoves, FoundKept DEF ForceRunner, Dead, Holders, Locked, Moves, Found,
     Repairing, Stages, LauncherOn, Alive
<1>24. CASE ForceLauncher
  BY <1>24, ForceLauncherMoves, FoundKept DEF ForceLauncher, Terminate, Unhandled, Shut, Dead,
     Locked, LauncherOn, Moves, Found, Repairing, Stages, Alive
<1>25. CASE ForceCheck
  <2>1. UNCHANGED <<life, receipt, launch>>
    BY <1>25 DEF ForceCheck
  <2> QED BY <2>1, <1>25, ForceCheckMoves, FoundKept DEF Ended, Moves, Found, Repairing, Stages,
      LauncherOn, Alive
<1>26. CASE CheckStart
  <2>1. UNCHANGED <<life, receipt, launch>> /\ op.target = 0
    BY <1>26 DEF CheckStart, Stages
  <2>2. CASE ~LauncherOn /\ \E g \in Holders : Moves("repair", op.back, g, op.round)
    BY <2>1, <2>2 DEF Moves, Found, Holders, OwnerIsLive, LauncherOn, Types, Receipts, Alive
  <2>3. CASE Ended \/ Moves("restart", op.back, op.target, op.round)
    BY <2>1, <2>3 DEF Moves, Ended, Found, Repairing
  <2> QED BY <1>26, <2>2, <2>3, CheckStartMoves
<1>27. CASE Launch
  BY <1>27, LaunchMoves, FoundKept DEF Launch, Off, LauncherOn, Ended, Moves, Found, Repairing,
     Stages, Alive
<1>28. CASE Health
  <2>1. UNCHANGED <<life, receipt, launch>>
    BY <1>28 DEF Health
  <2> QED BY <2>1, <1>28, HealthMoves, FoundKept DEF Ended, Moves, Found, Repairing, Stages,
      LauncherOn, Alive
<1>29. CASE Undo
  <2>1. Moves("reap", op.back, op.target, op.round) /\ Repairing
    BY <1>29, UndoMoves DEF Stages, Repairing
  <2>2. UNCHANGED receipt /\ launch'.child = launch.child /\ LauncherOn' = LauncherOn
    BY <1>29 DEF Undo, Shut, Types, Launches, LauncherOn
  <2> QED BY <2>1, <2>2, FoundKept DEF Moves, Found
<1>30. CASE Reap
  BY <1>30, ReapMoves, FoundKept DEF Reap, Close, LauncherGone, Dead, Off, NoPause, Locked,
     Alive, Ended, Moves, Found, Repairing, Stages, LauncherOn
<1>31. CASE Disown
  BY <1>31, DisownMoves, FoundKept DEF Disown, Close, Remove, Dead, NoReceipt, NoPause, Ended,
     Moves, Found, Repairing, Stages, LauncherOn, Alive
<1>32. CASE CheckRecovery
  <2>1. UNCHANGED <<life, receipt, launch>>
    BY <1>32 DEF CheckRecovery
  <2> QED BY <2>1, <1>32, CheckRecoveryMoves, FoundKept DEF Ended, Moves, Found, Repairing,
      Stages, LauncherOn, Alive
<1>33. CASE StartupFails
  <2> SUFFICES ASSUME Repairing', op'.target # 0
               PROVE  Found'
    BY DEF Found
  <2>1. UNCHANGED op /\ Repairing /\ op.target # 0
    BY <1>33 DEF StartupFails, Repairing
  <2>2. UNCHANGED receipt /\ LauncherOn /\ (launch'.child = launch.child \/ launch'.child = 0)
    BY <1>33 DEF StartupFails, Types, Launches, LauncherOn
  <2> QED BY <2>1, <2>2, <1>33, FoundKept DEF StartupFails, Found
<1>34. CASE LauncherDies
  BY <1>34, FoundKept DEF LauncherDies, LauncherGone, Off, Alive, LauncherOn, Found, Repairing,
     Stages
<1>35. CASE ShellStart
  BY <1>35, FoundKept DEF ShellStart, Off, Holders, Locked, Alive, LauncherOn, Barrier, Found,
     Repairing, Stages
<1>36. ASSUME NEW g \in Runners, ChildPublishes(g) PROVE Found'
  <2> SUFFICES ASSUME Repairing', op'.target # 0
               PROVE  Found'
    BY DEF Found
  <2>1. UNCHANGED op /\ Repairing /\ op.target # 0
    BY <1>36 DEF ChildPublishes, Repairing
  <2>2. receipt'.owner = receipt.owner /\ UNCHANGED launch
    BY <1>36 DEF ChildPublishes, Types, Receipts
  <2> QED BY <2>1, <2>2, <1>36, FoundKept DEF ChildPublishes, Found, LauncherOn
<1>37. ASSUME NEW g \in Runners, Acquire(g) PROVE Found'
  BY <1>37, FoundKept DEF Acquire, Holders, Locked, Alive, LauncherOn, Found, Repairing, Stages
<1>38. ASSUME NEW g \in Runners, Recover(g) PROVE Found'
  BY <1>38, FoundKept DEF Recover, Alive, LauncherOn, Found, Repairing, Stages
<1>39. ASSUME NEW g \in Runners, Turn(g) PROVE Found'
  BY <1>39, FoundKept DEF Turn, Acknowledged, Alive, LauncherOn, Barrier, Found, Repairing,
     Stages
<1>40. ASSUME NEW g \in Runners, Claim(g) PROVE Found'
  BY <1>40, FoundKept DEF Claim, Alive, LauncherOn, Found, Repairing, Stages
<1>41. ASSUME NEW g \in Runners, Begin(g) PROVE Found'
  BY <1>41, FoundKept DEF Begin, Acknowledged, BarrierAppeared, Alive, LauncherOn, Barrier,
     Found, Repairing, Stages
<1>42. ASSUME NEW g \in Runners, Finish(g) PROVE Found'
  BY <1>42, FoundKept DEF Finish, Alive, LauncherOn, Found, Repairing, Stages
<1>43. ASSUME NEW g \in Runners, Leave(g) PROVE Found'
  BY <1>43, FoundKept DEF Leave, Dead, Alive, LauncherOn, Found, Repairing, Stages
<1>44. ASSUME NEW g \in Runners, RunnerDies(g) PROVE Found'
  BY <1>44, FoundKept DEF RunnerDies, Dead, Alive, LauncherOn, Found, Repairing, Stages
<1>45. ASSUME NEW k \in {"stop", "force", "start", "recover"}, Open(k)
      PROVE  Found'
  BY <1>45, FoundKept DEF Open, NoOp, Alive, LauncherOn, Barrier, Found, Repairing, Stages
<1>46. CASE \/ Enqueue \/ GatewayDies
            \/ \E g \in Runners : Timer(g)
            \/ UNCHANGED vars
  <2>1. UNCHANGED <<op, life, receipt, launch>>
    BY <1>46 DEF vars, Enqueue, GatewayDies, Timer
  <2> QED BY <2>1, FoundKept DEF Found, Repairing, Stages, LauncherOn, Alive
<1> QED BY <1>1, <1>2, <1>3, <1>4, <1>5, <1>6, <1>7, <1>8, <1>9, <1>10, <1>11, <1>12, <1>13,
    <1>14, <1>15, <1>16, <1>17, <1>18, <1>19, <1>20, <1>21, <1>22, <1>23, <1>24, <1>25, <1>26,
    <1>27, <1>28, <1>29, <1>30, <1>31, <1>32, <1>33, <1>34, <1>35, <1>36, <1>37, <1>38, <1>39,
    <1>40, <1>41, <1>42, <1>43, <1>44, <1>45, <1>46 DEF Next, LauncherStep, RunnerStep, OpStep

\* A step that sends no SIGTERM keeps TermIsIdle.
LEMMA TermKept ==
  ASSUME Types, Stages, TermIsIdle, [Next]_vars, term' \subseteq term,
         UNCHANGED op \/ op.step \notin {"leaving", "killing"}
  PROVE  TermIsIdle'
<1> SUFFICES ASSUME NEW g \in Runners, g \in term', life'[g] \in Active
             PROVE  life'[g] # "working" /\ op'.step \in {"leaving", "killing"} /\ op'.target = g
  <2>1. term' \subseteq Runners
    BY DEF Types
  <2> QED BY <2>1 DEF TermIsIdle, Active
<1>1. g \in term /\ life[g] \in Active
  BY DulledStep DEF Dulled
<1>2. life[g] # "working" /\ op.step \in {"leaving", "killing"} /\ op.target = g
  BY <1>1 DEF TermIsIdle
<1>3. Calm /\ Barrier
  BY <1>2, CalmStep DEF Stages, Barrier
<1> QED BY <1>2, <1>3 DEF Calm

\* TermIsIdle is kept, if a signalled runner never outlasts the operator's wait.
LEMMA TermStep ==
  ASSUME Types, Stages, Named, Working, StopsAreStill, TargetStops, OnlyFound, Found, TermIsIdle,
         "slow" \notin Windows, [Next]_vars
  PROVE  TermIsIdle'
<1>1. CASE Spawn
  BY <1>1, TermKept DEF Spawn, TermIsIdle
<1>2. CASE ParentPublishes
  BY <1>2, TermKept DEF ParentPublishes, Dead, TermIsIdle
<1>3. CASE GraceEnds
  BY <1>3, TermKept DEF GraceEnds, Dead, Alive, TermIsIdle
<1>4. CASE CheckStop
  <2>1. UNCHANGED <<term, life>>
    BY <1>4 DEF CheckStop
  <2> QED BY <2>1, <1>4, CheckStopMoves, TermKept DEF Ended, Moves, TermIsIdle
<1>5. CASE Quiesce
  <2>1. UNCHANGED <<term, life>>
    BY <1>5 DEF Quiesce
  <2> QED BY <2>1, <1>5, QuiesceMoves, TermKept DEF Moves, TermIsIdle
<1>6. CASE Pause
  <2>1. UNCHANGED <<term, life>>
    BY <1>6 DEF Pause
  <2> QED BY <2>1, <1>6, PauseMoves, TermKept DEF Moves, TermIsIdle
<1>7. CASE Await
  <2>1. UNCHANGED <<term, life>>
    BY <1>7 DEF Await
  <2> QED BY <2>1, <1>7, AwaitMoves, TermKept DEF Ended, Moves, TermIsIdle
<1>8. CASE Decide
  <2>1. CASE Ended
    <3>1. op.kind # "none" /\ op'.kind = "none"
      BY <1>8, <2>1 DEF Decide, Stages, Ended
    <3>2. job = "running"
      BY <1>8, <3>1 DEF Decide, Types, Ops
    <3> QED BY <1>8, <3>2, TermKept DEF Decide
  <2>2. CASE op'.step \in {"leaving", "killing"} /\ op'.target = op.target /\ job # "running"
    <3>1. OnlyTarget' /\ NoneWorks'
      <4>1. NoneWorks /\ OnlyTarget
        BY <1>8, <2>2 DEF Decide, Working, NoneWorks, TargetStops
      <4> QED BY <1>8, <4>1, <2>2, Settled DEF Decide
    <3>2. term' \subseteq Runners
      BY TypesStep DEF Types
    <3> QED BY <2>2, <3>1, <3>2 DEF OnlyTarget, NoneWorks, TermIsIdle
  <2> QED BY <1>8, <2>1, <2>2, DecideMoves DEF Moves
<1>9. CASE AwaitRunner
  <2>1. CASE UNCHANGED op
    BY <1>9, <2>1, TermKept DEF AwaitRunner
  <2>2. CASE ~Alive(op.target)
    <3>1. NoneActive
      BY <1>9, <2>2 DEF AwaitRunner, TargetStops, OnlyTarget, NoneActive, Alive, Active
    <3>2. NoneActive' /\ term' \subseteq Runners
      BY <1>9, <3>1, Settled, TypesStep DEF AwaitRunner, Types
    <3> QED BY <3>2 DEF NoneActive, TermIsIdle
  <2> QED BY <1>9, <2>1, <2>2 DEF AwaitRunner
<1>10. CASE StopLauncher
  <2>1. NoneActive
    BY <1>10 DEF StopLauncher, StopsAreStill
  <2>2. NoneActive' /\ term' \subseteq Runners
    BY <1>10, <2>1, Settled, TypesStep DEF StopLauncher, Types
  <2> QED BY <2>2 DEF NoneActive, TermIsIdle
<1>11. CASE AwaitLauncher
  <2>1. UNCHANGED <<term, life>>
    BY <1>11 DEF AwaitLauncher
  <2> QED BY <2>1, <1>11, AwaitLauncherMoves, TermKept DEF Ended, Moves, TermIsIdle
<1>12. CASE FreezeLauncher
  <2>1. UNCHANGED <<term, life>>
    BY <1>12 DEF FreezeLauncher
  <2> QED BY <2>1, <1>12, FreezeLauncherMoves, TermKept DEF Ended, Moves, TermIsIdle
<1>13. CASE ReapReceipt
  BY <1>13, ReapReceiptMoves, TermKept DEF ReapReceipt, Close, Remove, Dead, NoReceipt, NoPause,
     Alive, Ended, Moves, TermIsIdle
<1>14. CASE Closing
  <2>1. UNCHANGED <<term, life>>
    BY <1>14 DEF Closing
  <2> QED BY <2>1, <1>14, ClosingMoves, TermKept DEF Ended, Moves, TermIsIdle
<1>15. CASE StopGateway
  <2>1. UNCHANGED <<term, life>>
    BY <1>15 DEF StopGateway
  <2> QED BY <2>1, <1>15, StopGatewayMoves, TermKept DEF Ended, Moves, TermIsIdle
<1>16. CASE Stopped
  <2>1. UNCHANGED <<term, life>>
    BY <1>16 DEF Stopped
  <2> QED BY <2>1, <1>16, StoppedMoves, TermKept DEF Ended, TermIsIdle
<1>17. CASE ForceRunner
  BY <1>17, ForceRunnerMoves, TermKept DEF ForceRunner, Dead, Holders, Locked, Ended, Moves,
     TermIsIdle
<1>18. CASE ForceLauncher
  <2>1. NoneActive
    BY <1>18 DEF ForceLauncher, StopsAreStill
  <2>2. NoneActive' /\ term' \subseteq Runners
    BY <1>18, <2>1, Settled, TypesStep DEF ForceLauncher, Types
  <2> QED BY <2>2 DEF NoneActive, TermIsIdle
<1>19. CASE ForceCheck
  <2>1. UNCHANGED <<term, life>>
    BY <1>19 DEF ForceCheck
  <2> QED BY <2>1, <1>19, ForceCheckMoves, TermKept DEF Ended, Moves, TermIsIdle
<1>20. CASE CheckStart
  <2>1. UNCHANGED <<term, life>>
    BY <1>20 DEF CheckStart
  <2> QED BY <2>1, <1>20, CheckStartMoves, TermKept DEF Ended, Moves, TermIsIdle
<1>21. CASE Launch
  <2>1. UNCHANGED <<term, life>>
    BY <1>21 DEF Launch
  <2> QED BY <2>1, <1>21, LaunchMoves, TermKept DEF Ended, Moves, TermIsIdle
<1>22. CASE Health
  <2>1. UNCHANGED <<term, life>>
    BY <1>22 DEF Health
  <2> QED BY <2>1, <1>22, HealthMoves, TermKept DEF Ended, Moves, TermIsIdle
<1>23. CASE Undo
  <2>1. OnlyTarget /\ op.target # 0 /\ (LauncherOn => launch.child # op.target)
    BY <1>23 DEF Undo, Stages, OnlyFound, Repairing, Found, Named
  <2>2. OnlyTarget' /\ term' \subseteq Runners /\ op'.target = op.target
    BY <1>23, <2>1, UndoMoves, Settled, TypesStep DEF Undo, Types, Moves
  <2>3. \A g \in term : life[g] \notin Active
    BY <1>23 DEF TermIsIdle, Undo
  <2>4. \A g \in Runners : g \in term' /\ g # launch.child => g \in term
    BY <1>23 DEF Undo, Shut, Terminate
  <2>5. ~LauncherOn => term' = term
    BY <1>23 DEF Undo
  <2>6. \A g \in term' : life'[g] \notin Active
    BY <2>1, <2>2, <2>3, <2>4, <2>5, DulledStep DEF OnlyTarget, Dulled
  <2> QED BY <2>6 DEF TermIsIdle
<1>24. CASE Reap
  BY <1>24, ReapMoves, TermKept DEF Reap, Close, LauncherGone, Dead, Off, NoPause, Locked,
     Alive, Ended, Moves, TermIsIdle
<1>25. CASE Disown
  BY <1>25, DisownMoves, TermKept DEF Disown, Close, Remove, Dead, NoReceipt, NoPause, Ended,
     TermIsIdle
<1>26. CASE CheckRecovery
  <2>1. UNCHANGED <<term, life>>
    BY <1>26 DEF CheckRecovery
  <2> QED BY <2>1, <1>26, CheckRecoveryMoves, TermKept DEF Ended, Moves, TermIsIdle
<1>27. CASE StartupFails
  BY <1>27, TermKept DEF StartupFails, Dead, TermIsIdle
<1>28. ASSUME NEW g \in Runners, ChildPublishes(g) PROVE TermIsIdle'
  BY <1>28, TermKept DEF ChildPublishes, Dead, IntentStands, TermIsIdle
<1>29. ASSUME NEW g \in Runners, Acquire(g) PROVE TermIsIdle'
  BY <1>29, TermKept DEF Acquire, Holders, Locked, TermIsIdle
<1>30. ASSUME NEW g \in Runners, Recover(g) PROVE TermIsIdle'
  BY <1>30, TermKept DEF Recover, TermIsIdle
<1>31. ASSUME NEW g \in Runners, Turn(g) PROVE TermIsIdle'
  BY <1>31, TermKept DEF Turn, Acknowledged, Barrier, TermIsIdle
<1>32. ASSUME NEW g \in Runners, Claim(g) PROVE TermIsIdle'
  BY <1>32, TermKept DEF Claim, TermIsIdle
<1>33. ASSUME NEW g \in Runners, Begin(g) PROVE TermIsIdle'
  BY <1>33, TermKept DEF Begin, Acknowledged, BarrierAppeared, Barrier, TermIsIdle
<1>34. ASSUME NEW g \in Runners, Finish(g) PROVE TermIsIdle'
  BY <1>34, TermKept DEF Finish, TermIsIdle
<1>35. ASSUME NEW g \in Runners, Leave(g) PROVE TermIsIdle'
  BY <1>35, TermKept DEF Leave, Dead, TermIsIdle
<1>36. ASSUME NEW g \in Runners, RunnerDies(g) PROVE TermIsIdle'
  BY <1>36, TermKept DEF RunnerDies, Dead, Alive, TermIsIdle
<1>37. ASSUME NEW k \in {"stop", "force", "start", "recover"}, Open(k)
      PROVE  TermIsIdle'
  BY <1>37, TermKept DEF Open, Barrier, Stages
<1>38. CASE \/ Prepare \/ ClearFailed \/ ChildGone \/ Inherit \/ Bridge \/ LauncherExits
            \/ LauncherDies \/ Enqueue \/ GatewayDies \/ ShellStart
            \/ \E g \in Runners : Timer(g)
            \/ UNCHANGED vars
  <2>1. UNCHANGED <<term, life, op>>
    BY <1>38 DEF vars, Prepare, ClearFailed, ChildGone, Inherit, Bridge, LauncherExits,
       LauncherDies, Enqueue, GatewayDies, ShellStart, Timer
  <2> QED BY <2>1 DEF TermIsIdle
<1> QED BY <1>1, <1>2, <1>3, <1>4, <1>5, <1>6, <1>7, <1>8, <1>9, <1>10, <1>11, <1>12, <1>13,
    <1>14, <1>15, <1>16, <1>17, <1>18, <1>19, <1>20, <1>21, <1>22, <1>23, <1>24, <1>25, <1>26,
    <1>27, <1>28, <1>29, <1>30, <1>31, <1>32, <1>33, <1>34, <1>35, <1>36, <1>37, <1>38 DEF Next,
    LauncherStep, RunnerStep, OpStep

\* A generation that does not hold the lock is neither at work nor the one a start found.
LEMMA ShellsAreFree ==
  ASSUME Found, NEW g \in Runners, life[g] \in {"shell", "boot"}
  PROVE  /\ life[g] # "working"
         /\ ~(Repairing /\ op.target = g)
  BY HoldersFit DEF Found, Locked

\* Every step spares the work it should spare.
LEMMA WorkSparedStep ==
  ASSUME Types, Named, Stages, Owned, Working, StopsAreStill, TargetStops, OnlyFound, Found,
         TermIsIdle, "slow" \notin Windows, [Next]_vars
  PROVE  WorkSpared
<1>1. CASE Spawn
  BY <1>1 DEF Spawn, WorkSpared, Alive, Types
<1>2. CASE ParentPublishes
  <2>1. launch.child \in Runners
    BY <1>2, NamedForm DEF ParentPublishes
  <2>2. CASE UNCHANGED life
    BY <2>2 DEF WorkSpared, Alive
  <2>3. CASE receipt.runner # launch.child /\ life' = Dead({launch.child})
    <3>1. \A g \in Runners : Alive(g) /\ life'[g] = "dead" => life[g] = "shell"
      BY <2>1, <2>3 DEF Dead, Alive, Owned, Types, Lives
    <3> QED BY <3>1, ShellsAreFree DEF WorkSpared, Repairing
  <2> QED BY <1>2, <2>2, <2>3 DEF ParentPublishes
<1>3. CASE GraceEnds
  <2>1. \A g \in Runners : Alive(g) /\ life'[g] = "dead" => g \in term
    BY <1>3 DEF GraceEnds, Dead, Alive
  <2> QED BY <2>1 DEF WorkSpared, TermIsIdle, Active
<1>4. CASE Decide
  <2>1. \A g \in Runners : Alive(g) /\ life'[g] = "dead" => life[g] \in {"shell", "boot"}
    BY <1>4 DEF Decide, Terminate, Unhandled, Dead, Types, Alive
  <2> QED BY <2>1, ShellsAreFree DEF WorkSpared, Repairing
<1>5. CASE AwaitRunner
  <2>1. NoneWorks /\ ~Repairing
    BY <1>5 DEF AwaitRunner, TargetStops, Repairing
  <2> QED BY <2>1 DEF WorkSpared, NoneWorks, Repairing
<1>6. CASE StopLauncher
  <2>1. \A g \in Runners : Alive(g) /\ life'[g] = "dead" => life[g] \in {"shell", "boot"}
    BY <1>6 DEF StopLauncher, Shut, Terminate, Unhandled, Dead, Types, Alive
  <2> QED BY <2>1, ShellsAreFree DEF WorkSpared, Repairing
<1>7. CASE ReapReceipt
  <2>1. ~Repairing
    BY <1>7 DEF ReapReceipt, Repairing
  <2>2. op.kind # "force" => NoneWorks
    BY <1>7 DEF ReapReceipt, StopsAreStill, NoneActive, NoneWorks, Active
  <2> QED BY <2>1, <2>2 DEF WorkSpared, NoneWorks, Repairing
<1>8. CASE ForceRunner
  BY <1>8 DEF ForceRunner, Stages, ForceSteps, WorkSpared
<1>9. CASE ForceLauncher
  <2>1. \A g \in Runners : Alive(g) /\ life'[g] = "dead" => life[g] \in {"shell", "boot"}
    BY <1>9 DEF ForceLauncher, Shut, Terminate, Unhandled, Dead, Types, Alive
  <2> QED BY <2>1, ShellsAreFree DEF WorkSpared, Repairing
<1>10. CASE Undo
  <2>1. \A g \in Runners : Alive(g) /\ life'[g] = "dead" => life[g] \in {"shell", "boot"}
    BY <1>10 DEF Undo, Shut, Terminate, Unhandled, Dead, Types, Alive
  <2> QED BY <2>1, ShellsAreFree DEF WorkSpared, Repairing
<1>11. CASE Reap
  <2>1. Repairing /\ OnlyTarget
    BY <1>11 DEF Reap, Stages, Repairing, OnlyFound
  <2>2. \A g \in Runners : Alive(g) /\ life'[g] = "dead" => g # op.target
    BY <1>11 DEF Reap, Dead, Alive
  <2> QED BY <2>1, <2>2 DEF WorkSpared, OnlyTarget, Active
<1>12. CASE Disown
  <2>1. Repairing /\ OnlyTarget /\ op.target # 0 /\ ~Alive(op.target)
    BY <1>12 DEF Disown, Stages, Repairing, OnlyFound, Found, Named
  <2> QED BY <2>1 DEF WorkSpared, OnlyTarget, Active
<1>13. CASE StartupFails
  BY <1>13 DEF StartupFails, WorkSpared, Types
<1>14. ASSUME NEW g \in Runners, ChildPublishes(g) PROVE WorkSpared
  <2>1. \A h \in Runners : Alive(h) /\ life'[h] = "dead" => life[h] \in {"shell", "boot"}
    BY <1>14 DEF ChildPublishes, Dead, Types, Alive
  <2> QED BY <2>1, ShellsAreFree DEF WorkSpared, Repairing
<1>15. ASSUME NEW g \in Runners, Acquire(g) PROVE WorkSpared
  <2>1. \A h \in Runners : Alive(h) /\ life'[h] = "dead" => life[h] \in {"shell", "boot"}
    BY <1>15 DEF Acquire, Types, Alive
  <2> QED BY <2>1, ShellsAreFree DEF WorkSpared, Repairing
<1>16. ASSUME NEW g \in Runners, Recover(g) PROVE WorkSpared
  BY <1>16 DEF Recover, WorkSpared, Alive, Types
<1>17. ASSUME NEW g \in Runners, Turn(g) PROVE WorkSpared
  BY <1>17 DEF Turn, Acknowledged, Barrier, WorkSpared, Alive, Types
<1>18. ASSUME NEW g \in Runners, Claim(g) PROVE WorkSpared
  BY <1>18 DEF Claim, WorkSpared, Alive, Types
<1>19. ASSUME NEW g \in Runners, Begin(g) PROVE WorkSpared
  BY <1>19 DEF Begin, Acknowledged, BarrierAppeared, Barrier, WorkSpared, Alive, Types
<1>20. ASSUME NEW g \in Runners, Finish(g) PROVE WorkSpared
  BY <1>20 DEF Finish, WorkSpared, Alive, Types
<1>21. ASSUME NEW g \in Runners, Leave(g) PROVE WorkSpared
  <2>1. \A h \in Runners : Alive(h) /\ life'[h] = "dead" => h \in term
    BY <1>21 DEF Leave, Dead, Alive
  <2> QED BY <2>1 DEF WorkSpared, TermIsIdle, Active
<1>22. ASSUME NEW g \in Runners, RunnerDies(g) PROVE WorkSpared
  BY <1>22 DEF RunnerDies, WorkSpared, Types
<1>23. CASE \/ Prepare \/ ClearFailed \/ ChildGone \/ Inherit \/ Bridge \/ LauncherExits
            \/ CheckStop \/ Quiesce \/ Pause \/ Await \/ AwaitLauncher \/ FreezeLauncher
            \/ Closing \/ StopGateway \/ Stopped \/ ForceCheck \/ CheckStart \/ Launch
            \/ Health \/ CheckRecovery \/ LauncherDies \/ Enqueue \/ GatewayDies \/ ShellStart
            \/ \E g \in Runners : Timer(g)
            \/ \E k \in {"stop", "force", "start", "recover"} : Open(k)
            \/ UNCHANGED vars
  <2>1. UNCHANGED <<life>>
    BY <1>23 DEF vars, Prepare, ClearFailed, ChildGone, Inherit, Bridge, LauncherExits,
       CheckStop, Quiesce, Pause, Await, AwaitLauncher, FreezeLauncher, Closing, StopGateway,
       Stopped, ForceCheck, CheckStart, Launch, Health, CheckRecovery, LauncherDies, Enqueue,
       GatewayDies, ShellStart, Timer, Open
  <2> QED BY <2>1 DEF WorkSpared, Alive, Types
<1> QED BY <1>1, <1>2, <1>3, <1>4, <1>5, <1>6, <1>7, <1>8, <1>9, <1>10, <1>11, <1>12, <1>13,
    <1>14, <1>15, <1>16, <1>17, <1>18, <1>19, <1>20, <1>21, <1>22, <1>23 DEF Next, LauncherStep,
    RunnerStep, OpStep

-----------------------------------------------------------------------------
(* The theorems. *)

\* The inductive invariant of the launch and stop protocol.
IInv ==
  /\ Types /\ Named /\ Owned /\ FailedIsDead /\ Unreported /\ Stages
  /\ GatewayIsDown /\ FinalIsDown /\ StopIsFinal

\* What it takes in addition to show that work is spared.
ISpare ==
  /\ Working /\ OwnerIsLive /\ StopsAreStill /\ TargetStops /\ OnlyFound /\ Found /\ TermIsIdle

\* The invariant holds at first.
LEMMA InitIInv == Init => IInv
<1> SUFFICES ASSUME Init PROVE IInv
  OBVIOUS
<1>1. Types
  <2>1. receipt \in Receipts
    BY Generations DEF Init, Receipts, NoReceipt
  <2>2. launch \in Launches /\ pause \in Pauses /\ op \in Ops
    BY LaunchForms, NoOpForm, Generations, Zenon DEF Init, Pauses, NoPause
  <2>3. life \in [Runners -> Lives]
    BY DEF Init, Lives
  <2>4. ops \in 0 .. MaxOps /\ faults \in 0 .. MaxFaults
    BY RunnerServiceAssumption DEF Init
  <2> QED BY <2>1, <2>2, <2>3, <2>4 DEF Init, Types
<1>2. Named /\ FailedIsDead
  BY DEF Init, Named, FailedIsDead, NoReceipt, Off, NoOp
<1>3. Owned
  BY DEF Init, Owned, Owning, Locked
<1>4. Unreported /\ Stages /\ GatewayIsDown /\ FinalIsDown /\ StopIsFinal
  BY DEF Init, Unreported, Stages, GatewayIsDown, FinalIsDown, StopIsFinal, NoOp, Barrier,
     ForceSteps
<1> QED BY <1>1, <1>2, <1>3, <1>4 DEF IInv

\* So does the rest.
LEMMA InitISpare == Init => ISpare
  BY DEF Init, ISpare, Working, OwnerIsLive, StopsAreStill, NoneActive, TargetStops, OnlyFound,
     Found, TermIsIdle, Repairing, NoReceipt, NoOp, Off, Active

\* Every step keeps the invariant, whatever races are admitted.
LEMMA IInvStep == IInv /\ [Next]_vars => IInv'
<1> SUFFICES ASSUME IInv, [Next]_vars PROVE IInv'
  OBVIOUS
<1> QED
  BY TypesStep, NamedStep, OwnedStep, FailedStep, UnreportedStep, StagesStep, GatewayStep,
     FinalStep, StopStep DEF IInv

\* Every step keeps the rest, unless a signalled process outlasts the wait.
LEMMA ISpareStep ==
  IInv /\ ISpare /\ "slow" \notin Windows /\ [Next]_vars => ISpare' /\ WorkSpared
<1> SUFFICES ASSUME IInv, ISpare, "slow" \notin Windows, [Next]_vars PROVE ISpare' /\ WorkSpared
  OBVIOUS
<1>1. Working' /\ OwnerIsLive' /\ StopsAreStill' /\ TargetStops'
  BY WorkingStep, OwnerStep, StopsAreStillStep, TargetStep DEF IInv, ISpare
<1>2. OnlyFound' /\ Found' /\ TermIsIdle'
  BY OnlyFoundStep, FoundStep, TermStep DEF IInv, ISpare
<1>3. WorkSpared
  BY WorkSparedStep DEF IInv, ISpare
<1> QED BY <1>1, <1>2, <1>3 DEF ISpare

\* For every number of generations, operations and faults, and every race admitted: at most
\* one generation is past its publication and the receipt names it (runner-launch-receipt.ts),
\* and a stop that was reported has left nothing and nothing comes back (service-control.ts).
THEOREM ServiceIsSafe == Spec => []Safety
<1>1. IInv => Safety
  BY TypesAre DEF IInv, Safety
<1> QED BY InitIInv, IInvStep, <1>1, PTL DEF Spec

\* Only a forced stop ends a runner at work, and a start never ends the runner it found, as
\* long as no signalled process outlasts the operator's wait: the runner that claims while it
\* is asked to pause, and the launcher that is stopped with its child, included.
THEOREM ServiceSparesWork ==
  ASSUME "slow" \notin Windows
  PROVE  Spec => WorkIsSpared
<1>1. Init => IInv /\ ISpare
  BY InitIInv, InitISpare
<1>2. IInv /\ ISpare /\ [Next]_vars => (IInv /\ ISpare)'
  BY IInvStep, ISpareStep
<1>3. IInv /\ ISpare /\ [Next]_vars => [WorkSpared]_vars
  BY ISpareStep
<1>4. Spec => [][WorkSpared]_vars
  BY <1>1, <1>2, <1>3, PTL DEF Spec
<1> QED BY <1>4 DEF WorkIsSpared, WorkSpared
-----------------------------------------------------------------------------
(* The requests to update the service. *)

RequestFiles == [state : {"none", "broken", "whole"}, id : 0 .. MaxIds, msg : Update!Msgs,
                 gate : 0 .. MaxGates, outcome : BOOLEAN, told : BOOLEAN, old : BOOLEAN]
WorkerSteps == {"off", "begin", "handshake", "start", "running", "record", "notify"}
UpdateWorkers == [step : WorkerSteps, id : 0 .. MaxIds, gate : 0 .. MaxGates,
                  copy : RequestFiles, tries : Nat, withdrawn : BOOLEAN]
GateStates == {"none", "waiting", "updating"}
UpdateCalls == [step : {"idle", "look", "reread", "accepting", "duplicate"}, id : 0 .. MaxIds]
AutoChecks == [step : {"idle", "detecting"}, checks : 0 .. MaxChecks, pending : 0 .. MaxIds]

\* The type invariant of the requests in terms of these sets.
UpdateTypes ==
  /\ file \in RequestFiles /\ seen \in RequestFiles
  /\ worker \in UpdateWorkers
  /\ gates \in [Update!Gates -> GateStates]
  /\ lock \in 0 .. MaxGates + 1
  /\ call \in [Update!Msgs -> UpdateCalls]
  /\ reserved \in SUBSET People
  /\ auto \in AutoChecks
  /\ up \in BOOLEAN
  /\ lost \in SUBSET Update!Living(Update!Gates)
  /\ failures \in 0 .. MaxFailures

\* An updater, or a gate that is about to be one, whose name was not given up.
UpdateKept(g) ==
  (gates[g] = "updating" \/ (worker.step = "start" /\ worker.gate = g)) /\ g \notin lost
NoneKept == \A g \in Update!Gates : ~UpdateKept(g)

\* A worker that has read its request.
AtWork == worker.step \in {"handshake", "start", "running", "record", "notify"}

\* An updater is the gate of an unfinished request in the file: so there is one at most.
UpdaterIsNamed ==
  \A g \in Update!Gates : UpdateKept(g) =>
    file.gate = g /\ file.state = "whole" /\ ~file.outcome

\* What a worker has in hand at each of its steps.
WorkerAt ==
  /\ worker.step \in {"handshake", "record", "notify"} => NoneKept
  /\ worker.step = "begin" /\ file.state = "whole" /\ file.id = worker.id => NoneKept
  /\ worker.step \in {"start", "running"} => \A g \in Update!Gates : UpdateKept(g) => g = worker.gate
  /\ worker.step \in {"handshake", "start", "running"} => worker.gate \in Update!Gates
  /\ worker.step \in {"handshake", "start"} => gates[worker.gate] = "waiting"
  /\ AtWork => worker.copy.id = worker.id /\ worker.copy.state = "whole" /\ ~worker.copy.told
  /\ worker.step \in {"record", "notify"} => worker.copy.outcome
  /\ Update!Session => worker.id \in Update!Ids

\* A worker at work works for the request in the file, unless its caller withdrew it.
WorksForFile ==
  AtWork /\ ~worker.withdrawn =>
    /\ file.state = "whole" /\ file.id = worker.id /\ ~file.told
    /\ file.outcome => worker.step = "notify"

\* A request that was withdrawn is gone until its worker records an outcome.
WithdrawnIsGone ==
  Update!Session /\ worker.withdrawn /\ worker.step # "notify" =>
    file.id # worker.id /\ seen.id # worker.id

\* What a file says of itself agrees.
Agrees(f) ==
  /\ IF f.state = "whole" THEN f.id \in Update!Ids ELSE f.id = 0
  /\ f.told => f.outcome

\* Only a person is told anything, and one call at a time is between reading and acting.
CallsAgree ==
  /\ \A m \in Update!Msgs : call[m].step = "accepting" => m \in People /\ call[m].id \in Update!Ids
  /\ \A m \in Update!Msgs : call[m].step = "duplicate" => m \in People
  /\ \A m, n \in Update!Msgs : call[m].step = "look" /\ call[n].step = "look" => m = n
  /\ ~Update!At("look") => seen = Update!Missing

\* What a call has read is no further than the file.
SeenIsOlder ==
  /\ seen.state = "whole" /\ seen.id = file.id =>
       /\ seen.told => file.told
       /\ seen.outcome => file.outcome
       /\ seen.old /\ seen.outcome = file.outcome => file.old \/ file.told
  /\ Update!At("look") /\ file.state = "whole" /\ file.id # seen.id => file.outcome

\* The inductive invariant of the requests.
UpdateInv ==
  /\ UpdateTypes /\ UpdaterIsNamed /\ WorkerAt /\ WorksForFile /\ WithdrawnIsGone
  /\ Agrees(file) /\ Agrees(seen) /\ CallsAgree /\ SeenIsOlder

\* What nothing is said of.
LEMMA MissingIs ==
  /\ Update!Missing \in RequestFiles /\ Update!Missing.state = "none" /\ Update!Missing.id = 0
  /\ Update!Missing.gate = 0 /\ ~Update!Missing.outcome /\ ~Update!Missing.told /\ ~Update!Missing.old
  /\ Update!Broken \in RequestFiles /\ Update!Broken.state = "broken" /\ Update!Broken.id = 0
  /\ Update!Broken.gate = 0 /\ ~Update!Broken.outcome /\ ~Update!Broken.told
<1>1. 0 \in 0 .. MaxIds /\ 0 \in 0 .. MaxGates /\ Automatic \in Update!Msgs
  BY UpkeepAssumption DEF Update!Msgs
<1>2. /\ Update!Missing \in RequestFiles /\ Update!Missing.state = "none" /\ Update!Missing.id = 0
      /\ Update!Missing.gate = 0 /\ ~Update!Missing.outcome /\ ~Update!Missing.told /\ ~Update!Missing.old
  BY <1>1 DEF Update!Missing, RequestFiles
<1> QED BY <1>2, Zenon DEF Update!Broken, RequestFiles

\* Nobody works.
LEMMA OffIs == Update!Off \in UpdateWorkers /\ Update!Off.step = "off" /\ ~Update!Off.withdrawn
<1>1. "off" \in WorkerSteps /\ 0 \in 0 .. MaxIds /\ 0 \in 0 .. MaxGates /\ 0 \in Nat
  BY UpkeepAssumption DEF WorkerSteps
<1> QED BY <1>1, MissingIs DEF Update!Off, UpdateWorkers

\* A worker that is started begins with the request it was started for.
LEMMA LaunchIs ==
  ASSUME NEW i \in Update!Ids, Update!Launch(i)
  PROVE  worker' \in UpdateWorkers /\ worker'.step = "begin" /\ worker'.id = i /\ ~worker'.withdrawn
<1>1. "begin" \in WorkerSteps /\ i \in 0 .. MaxIds
  BY UpkeepAssumption DEF WorkerSteps, Update!Ids
<1>2. worker' = [Update!Off EXCEPT !.step = "begin", !.id = i]
  BY DEF Update!Launch
<1> QED BY <1>1, <1>2, OffIs, Zenon DEF UpdateWorkers

\* At first nothing is requested and nobody works, so the invariant holds.
LEMMA UpInit == Update!Init => UpdateInv
<1> SUFFICES ASSUME Update!Init PROVE UpdateInv
  OBVIOUS
<1>0. 0 \in 0 .. MaxIds
  BY UpkeepAssumption
<1>1. UpdateTypes
  BY <1>0, MissingIs, OffIs, UpkeepAssumption DEF Update!Init, UpdateTypes, UpdateCalls, AutoChecks,
     GateStates, Update!Living
<1>2. worker.step = "off" /\ file.state = "none" /\ file.id = 0 /\ seen = file /\ ~file.told /\ NoneKept
  BY <1>0, MissingIs, OffIs DEF Update!Init, NoneKept, UpdateKept
<1>3. CallsAgree
  BY DEF Update!Init, CallsAgree, Update!At
<1> QED
  BY <1>1, <1>2, <1>3 DEF UpdateInv, UpdaterIsNamed, WorkerAt, AtWork, WorksForFile, WithdrawnIsGone,
     Agrees, SeenIsOlder, NoneKept, Update!Session

\* The Cardinality of the instance is that of FiniteSets.
LEMMA UpdateCardinality == \A S : Update!Cardinality(S) = Cardinality(S)
  BY DEF Update!Cardinality, Cardinality

\* One updater at a time beside those given up, and the file names it.
LEMMA UpIsSafe == UpdateInv => Update!Safety
<1> SUFFICES ASSUME UpdateInv PROVE Update!Safety
  OBVIOUS
<1>1. Update!TypeOK
  BY DEF UpdateInv, UpdateTypes, Update!TypeOK, RequestFiles, UpdateWorkers, WorkerSteps,
     UpdateCalls, AutoChecks, GateStates
<1>2. Update!OneUpdater
  <2> DEFINE S == {g \in Update!Gates : gates[g] = "updating"} \ lost
  <2>1. S \subseteq {file.gate}
    BY DEF UpdateInv, UpdaterIsNamed, UpdateKept
  <2>2. IsFiniteSet({file.gate}) /\ Cardinality({file.gate}) = 1
    BY FS_Singleton
  <2>3. Cardinality(S) <= 1
    BY <2>1, <2>2, FS_Subset
  <2> QED BY <2>3, UpdateCardinality DEF Update!OneUpdater
<1>3. Update!Findable
  BY DEF UpdateInv, UpdaterIsNamed, UpdateKept, Update!Findable
<1> QED BY <1>1, <1>2, <1>3 DEF Update!Safety

\* A gate that is kept is alive, and it is the file's.
LEMMA KeptIsLive ==
  ASSUME UpdateInv, NEW g \in Update!Gates, UpdateKept(g)
  PROVE  Update!GateLives(g) /\ g = file.gate /\ g \in Update!Living({file.gate})
         /\ ~file.outcome /\ ~file.told /\ file.state = "whole"
<1>1. gates[g] # "none" /\ g = file.gate /\ ~file.outcome /\ file.state = "whole"
  BY DEF UpdateInv, WorkerAt, UpdaterIsNamed, UpdateKept
<1> QED BY <1>1 DEF Update!GateLives, Update!Living, UpdateInv, Agrees

\* A file with a dead gate struck off, or as it was.
LEMMA StruckIs ==
  ASSUME NEW f \in RequestFiles
  PROVE  /\ Update!Struck(f) \in RequestFiles
         /\ Update!Struck(f).id = f.id /\ Update!Struck(f).state = f.state
         /\ Update!Struck(f).msg = f.msg /\ Update!Struck(f).outcome = f.outcome
         /\ Update!Struck(f).told = f.told /\ Update!Struck(f).old = f.old
         /\ Update!Struck(f) # f => ~Update!GateLives(f.gate) /\ ~Update!Session
         /\ ~Update!Session /\ ~Update!GateLives(f.gate) => Update!Struck(f).gate = 0
         /\ Update!Struck(f).gate = 0 => f.gate = 0 \/ Update!Struck(f) # f
  BY UpkeepAssumption DEF Update!Struck, RequestFiles

\* What a request says when a look ends, when its caller gives it up, or when a worker is
\* started, keeps the invariant if no updater is lost with it unnoticed, and nobody works
\* for what it said before.
Rewritten ==
  /\ UpdaterIsNamed /\ WorkerAt /\ WorksForFile /\ WithdrawnIsGone /\ Agrees(file) /\ Agrees(seen)
  /\ SeenIsOlder /\ file \in RequestFiles /\ seen \in RequestFiles /\ worker \in UpdateWorkers

LEMMA RewriteKeeps ==
  ASSUME UpdateInv, UNCHANGED gates, lost \subseteq lost', seen' = Update!Missing,
         \A g \in Update!Gates : UpdateKept(g) => g \in lost',
         file' \in RequestFiles, Agrees(file'), ~Update!At("look")',
         \/ /\ worker' = worker /\ ~(AtWork /\ ~worker.withdrawn)
            /\ Update!Session => file'.id # worker.id
         \/ ~Update!Session /\ \E i \in Update!Ids : Update!Launch(i)
         \/ /\ worker' = [worker EXCEPT !.withdrawn = TRUE]
            /\ file'.id # worker.id
  PROVE  Rewritten'
<1>1. seen' \in RequestFiles /\ Agrees(seen') /\ ~seen'.told /\ ~seen'.outcome /\ ~seen'.old /\ seen'.id = 0
      /\ seen'.state = "none"
  BY MissingIs DEF Agrees
<1>2. SeenIsOlder'
  BY <1>1 DEF SeenIsOlder
<1>3. worker \in UpdateWorkers
  BY DEF UpdateInv, UpdateTypes
<1>4. \/ /\ worker' \in UpdateWorkers /\ worker'.step = worker.step /\ worker'.id = worker.id
         /\ worker'.gate = worker.gate /\ worker'.copy = worker.copy
         /\ worker' = worker \/ worker'.withdrawn
         /\ file'.id # worker.id \/ ~Update!Session
         /\ ~(AtWork /\ ~worker'.withdrawn)
      \/ worker' \in UpdateWorkers /\ worker'.step = "begin" /\ ~worker'.withdrawn /\ worker'.id \in Update!Ids
  <2>1. CASE /\ worker' = worker /\ ~(AtWork /\ ~worker.withdrawn)
             /\ Update!Session => file'.id # worker.id
    BY <1>3, <2>1
  <2>2. CASE \E i \in Update!Ids : Update!Launch(i)
    BY <2>2, LaunchIs
  <2>3. CASE worker' = [worker EXCEPT !.withdrawn = TRUE] /\ file'.id # worker.id
    <3>1. TRUE \in BOOLEAN
      OBVIOUS
    <3>2. /\ worker' \in UpdateWorkers /\ worker'.step = worker.step /\ worker'.id = worker.id
          /\ worker'.gate = worker.gate /\ worker'.copy = worker.copy /\ worker'.withdrawn = TRUE
      BY <1>3, <2>3, <3>1, Zenon DEF UpdateWorkers
    <3> QED BY <2>3, <3>2
  <2> QED BY <2>1, <2>2, <2>3
<1>5. NoneKept'
  <2> SUFFICES ASSUME NEW g \in Update!Gates, UpdateKept(g)' PROVE FALSE
    BY DEF NoneKept
  <2>1. UpdateKept(g)
    BY <1>4 DEF UpdateKept
  <2> QED BY <2>1 DEF UpdateKept
<1>6. UpdaterIsNamed'
  BY <1>5 DEF UpdaterIsNamed, NoneKept
<1>7. WorkerAt'
  BY <1>4, <1>5 DEF WorkerAt, NoneKept, AtWork, Update!Session, UpdateInv
<1>8. WorksForFile' /\ WithdrawnIsGone'
  <2>1. 0 \notin Update!Ids
    BY UpkeepAssumption DEF Update!Ids
  <2>2. Update!Session => worker.id \in Update!Ids
    BY DEF UpdateInv, WorkerAt
  <2> QED BY <1>1, <1>4, <2>1, <2>2 DEF WorksForFile, WithdrawnIsGone, AtWork, Update!Session
<1> QED BY <1>1, <1>2, <1>4, <1>6, <1>7, <1>8 DEF Rewritten

\* What is left to show of a step, once what it says of the request is shown.
LEMMA RestIs ==
  ASSUME Rewritten', CallsAgree', UpdateTypes'
  PROVE  UpdateInv'
  BY DEF Rewritten, UpdateInv

\* What the reservation needs of the request it replaces.
Replaceable(m) ==
  /\ file = seen => NoneKept
  /\ ~(AtWork /\ ~worker.withdrawn)
  /\ file.state = "whole" /\ ~file.told =>
       /\ ~Update!Session
       /\ \/ file.old
          \/ file.outcome /\ m \in People
          \/ file.outcome /\ ~(seen.id = file.id /\ seen.outcome)

\* What a look finds finished may be replaced.
LEMMA ReservesIs ==
  ASSUME UpdateInv, NEW m \in Update!Msgs, Update!Reserves(m), Update!Cleared = Update!Missing
  PROVE  Replaceable(m)
<1> DEFINE f == Update!Struck(seen)
<1>1. seen \in RequestFiles /\ file \in RequestFiles
  BY DEF UpdateInv, UpdateTypes
<1>2. CASE seen.state = "none"
  <2>1. Update!Cleared = file
    BY <1>2 DEF Update!Cleared
  <2>2. file.state = "none"
    BY <2>1, MissingIs
  <2> QED BY <2>2, KeptIsLive DEF Replaceable, NoneKept, UpdateInv, WorksForFile
<1>3. CASE seen.state = "broken"
  <2>1. ~Update!Session
    BY <1>3 DEF Update!Reserves
  <2>2. file = seen => NoneKept
    BY <1>3, KeptIsLive DEF NoneKept
  <2>3. file.state = "whole" => file.outcome /\ file.id # seen.id
    <3>1. CASE Update!At("look")
      <4>1. file.state = "whole" => file.id # seen.id
        BY <1>3, <3>1, UpkeepAssumption DEF UpdateInv, Agrees, Update!Ids
      <4> QED BY <4>1, <3>1 DEF UpdateInv, SeenIsOlder
    <3>2. CASE ~Update!At("look")
      BY <1>3, <3>2, MissingIs DEF UpdateInv, CallsAgree
    <3> QED BY <3>1, <3>2
  <2> QED BY <2>1, <2>2, <2>3 DEF Replaceable, AtWork, Update!Session
<1>4. CASE seen.state = "whole" /\ seen.told
  <2>1. file.id = seen.id \/ file.state = "none"
    BY <1>4, MissingIs DEF Update!Cleared, Update!Settled
  <2>2. file.told \/ file.state = "none"
    BY <1>4, <2>1 DEF UpdateInv, SeenIsOlder
  <2> QED BY <2>2, KeptIsLive DEF Replaceable, NoneKept, UpdateInv, WorksForFile
<1>5. CASE seen.state = "whole" /\ ~seen.told
  <2>1. ~Update!Yields(m, f) /\ ~Update!Busy(f) /\ (f.outcome \/ f.old)
    BY <1>5 DEF Update!Reserves, Update!Settled
  <2>2. ~Update!Session
    BY <2>1 DEF Update!Busy
  <2>3. file = seen => NoneKept
    <3> SUFFICES ASSUME file = seen, NEW g \in Update!Gates, UpdateKept(g) PROVE FALSE
      BY DEF NoneKept
    <3>1. Update!GateLives(g) /\ g = seen.gate
      BY KeptIsLive
    <3>2. f = seen
      BY <1>1, <3>1, StruckIs
    <3> QED BY <2>1, <3>1, <3>2, UpkeepAssumption DEF Update!Busy, Update!Gates
  <2>4. ASSUME file.state = "whole", ~file.told
        PROVE  \/ file.old
               \/ file.outcome /\ m \in People
               \/ file.outcome /\ ~(seen.id = file.id /\ seen.outcome)
    <3>1. CASE seen.id = file.id
      <4>1. (seen.outcome => file.outcome) /\ (seen.old /\ seen.outcome = file.outcome => file.old)
        BY <1>5, <2>4, <3>1 DEF UpdateInv, SeenIsOlder
      <4>2. (seen.outcome \/ seen.old) /\ (seen.outcome /\ ~seen.old => m \in People)
        BY <1>1, <2>1, StruckIs DEF Update!Yields, Update!Msgs
      <4>3. seen.outcome \in BOOLEAN /\ file.outcome \in BOOLEAN /\ seen.old \in BOOLEAN
        BY <1>1 DEF RequestFiles
      <4> QED BY <4>1, <4>2, <4>3
    <3>2. CASE seen.id # file.id
      <4>1. Update!At("look")
        BY <1>5, MissingIs DEF UpdateInv, CallsAgree
      <4> QED BY <2>4, <3>2, <4>1 DEF UpdateInv, SeenIsOlder
    <3> QED BY <3>1, <3>2
  <2> QED BY <2>2, <2>3, <2>4 DEF Replaceable, AtWork, Update!Session
<1> QED BY <1>1, <1>2, <1>3, <1>4, <1>5 DEF RequestFiles

\* How a call goes on after its look.
Goes(m) ==
  /\ \E c \in UpdateCalls :
       /\ call' = [call EXCEPT ![m] = c]
       /\ c.step \in {"idle", "accepting", "duplicate"}
       /\ c.step # "idle" => m \in People
       /\ c.step = "accepting" => c.id \in Update!Ids
  /\ auto' \in AutoChecks

\* A call that goes on so keeps what is said of the calls.
LEMMA GoesKeeps ==
  ASSUME UpdateInv, NEW m \in Update!Msgs, Goes(m), seen' = Update!Missing
  PROVE  call' \in [Update!Msgs -> UpdateCalls] /\ auto' \in AutoChecks
         /\ (call[m].step = "look" \/ ~Update!At("look") => CallsAgree' /\ ~Update!At("look")')
<1>1. PICK c \in UpdateCalls :
       /\ call' = [call EXCEPT ![m] = c]
       /\ c.step \in {"idle", "accepting", "duplicate"}
       /\ c.step # "idle" => m \in People
       /\ c.step = "accepting" => c.id \in Update!Ids
  BY DEF Goes
<1>2. call \in [Update!Msgs -> UpdateCalls] /\ CallsAgree
  BY DEF UpdateInv, UpdateTypes
<1>3. call' \in [Update!Msgs -> UpdateCalls]
  BY <1>1, <1>2
<1>4. ASSUME call[m].step = "look" \/ ~Update!At("look") PROVE CallsAgree' /\ ~Update!At("look")'
  <2>1. \A n \in Update!Msgs : call'[n].step # "look"
    BY <1>1, <1>2, <1>4 DEF CallsAgree, Update!At
  <2>2. \A n \in Update!Msgs : call'[n].step \in {"accepting", "duplicate"} =>
          n \in People /\ (call'[n].step = "accepting" => call'[n].id \in Update!Ids)
    BY <1>1, <1>2 DEF CallsAgree
  <2>3. ~Update!At("look")'
    BY <2>1 DEF Update!At
  <2> QED BY <2>1, <2>2, <2>3 DEF CallsAgree
<1> QED BY <1>3, <1>4 DEF Goes

\* A call that is answered or given up goes on so.
LEMMA IdleGoes ==
  ASSUME UpdateInv, NEW m \in Update!Msgs, call' = [call EXCEPT ![m] = Update!Idle], auto' \in AutoChecks
  PROVE  Goes(m)
<1>1. Update!Idle \in UpdateCalls /\ Update!Idle.step = "idle"
  BY UpkeepAssumption DEF Update!Idle, UpdateCalls
<1> QED BY <1>1 DEF Goes

\* The answer to a second request.
LEMMA AnsweredIs ==
  ASSUME UpdateInv, NEW m \in Update!Msgs, NEW f \in RequestFiles, Update!Answered(m, f)
  PROVE  Goes(m)
<1>1. call \in [Update!Msgs -> UpdateCalls] /\ auto \in AutoChecks /\ f.id \in 0 .. MaxIds
  BY DEF UpdateInv, UpdateTypes, RequestFiles
<1>2. CASE m \in People
  <2> DEFINE c == [call[m] EXCEPT !.step = "duplicate"]
  <2>1. c \in UpdateCalls /\ c.step = "duplicate"
    BY <1>1 DEF UpdateCalls
  <2>2. call' = [call EXCEPT ![m] = c] /\ auto' = auto
    BY <1>2 DEF Update!Answered
  <2> HIDE DEF c
  <2> QED BY <1>1, <1>2, <2>1, <2>2 DEF Goes
<1>3. CASE m \notin People
  <2>1. call' = [call EXCEPT ![m] = Update!Idle] /\ auto' = [auto EXCEPT !.step = "idle", !.pending = f.id]
    BY <1>3 DEF Update!Answered
  <2>2. auto' \in AutoChecks
    BY <1>1, <2>1, Zenon DEF AutoChecks
  <2> QED BY <2>1, <2>2, IdleGoes
<1> QED BY <1>2, <1>3

\* What a look may have done to the request.
Changed(m) ==
  \/ UNCHANGED <<file, worker>>
  \/ /\ Replaceable(m) /\ file' \in RequestFiles /\ Agrees(file')
     /\ Update!Session => file'.id # worker.id
     /\ worker' = worker \/ (~Update!Session /\ \E i \in Update!Ids : Update!Launch(i))
  \/ /\ ~Update!Session /\ (file = seen => NoneKept) /\ file' \in RequestFiles /\ Agrees(file')
     /\ file' = file \/ (file'.id = seen.id /\ seen.state = "whole")
     /\ worker' = worker \/ \E i \in Update!Ids : Update!Launch(i)

\* reserveUpdateRequest writes a new request where it may, and otherwise answers with the
\* one that is there.
LEMMA ReserveDoes ==
  ASSUME UpdateInv, NEW m \in Update!Msgs, Update!Reserves(m), Update!Reserve(m)
  PROVE  Goes(m) /\ Changed(m)
<1>1. CASE Update!Cleared # Update!Missing
  <2>1. UNCHANGED <<file, worker>> /\ Update!Answered(m, file) /\ file \in RequestFiles
    BY <1>1 DEF Update!Reserve, UpdateInv, UpdateTypes
  <2> QED BY <2>1, AnsweredIs DEF Changed
<1>2. CASE Update!Cleared = Update!Missing
  <2> DEFINE i == Update!NewId
             new == [Update!Missing EXCEPT !.state = "whole", !.id = i, !.msg = m]
  <2>1. Replaceable(m)
    BY <1>2, ReservesIs
  <2>2. i \in Update!Ids /\ i # worker.id
    BY <1>2 DEF Update!Reserve, Update!NewId, Update!Fresh
  <2>3. i \in 0 .. MaxIds
    BY <2>2, UpkeepAssumption DEF Update!Ids
  <2>4. new \in RequestFiles /\ new.state = "whole" /\ new.id = i /\ ~new.told
    <3> HIDE DEF i
    <3> QED BY <2>3, MissingIs, Zenon DEF RequestFiles
  <2>5. Agrees(new) /\ Agrees(Update!Missing)
    BY <2>2, <2>4, MissingIs DEF Agrees
  <2>6. CASE m \in People
    <3>1. file' = new /\ call' = [call EXCEPT ![m] = [step |-> "accepting", id |-> i]]
          /\ worker' = worker /\ auto' = auto
      BY <1>2, <2>6 DEF Update!Reserve
    <3>2. [step |-> "accepting", id |-> i] \in UpdateCalls
      BY <2>3 DEF UpdateCalls
    <3>3. Goes(m)
      BY <2>2, <2>6, <3>1, <3>2 DEF Goes, UpdateInv, UpdateTypes
    <3> QED BY <2>1, <2>2, <2>4, <2>5, <3>1, <3>3 DEF Changed
  <2>7. CASE m \notin People
    <3>1. call' = [call EXCEPT ![m] = Update!Idle]
      BY <1>2, <2>7 DEF Update!Reserve
    <3>2. auto' \in AutoChecks
      <4>1. auto \in AutoChecks /\ auto.pending \in 0 .. MaxIds
        BY DEF UpdateInv, UpdateTypes, AutoChecks
      <4>2. \E p \in 0 .. MaxIds : auto' = [auto EXCEPT !.step = "idle", !.pending = p]
        BY <1>2, <2>3, <2>7, <4>1 DEF Update!Reserve
      <4> QED BY <4>1, <4>2, Zenon DEF AutoChecks
    <3>3. file' \in {new, Update!Missing}
          /\ (worker' = worker \/ (~Update!Session /\ Update!Launch(i)))
      <4>1. CASE lock # 0
        BY <1>2, <2>7, <4>1, Zenon DEF Update!Reserve
      <4>2. CASE lock = 0 /\ ~Update!Session
        BY <1>2, <2>7, <4>2, Zenon DEF Update!Reserve
      <4>3. CASE lock = 0 /\ Update!Session
        BY <1>2, <2>7, <4>3, Zenon DEF Update!Reserve
      <4> QED BY <4>1, <4>2, <4>3
    <3> HIDE DEF i, new
    <3>4. Update!Session => file'.id # worker.id
      BY <2>2, <2>4, <3>3, MissingIs, UpkeepAssumption DEF UpdateInv, WorkerAt, Update!Ids
    <3>5. file' \in RequestFiles /\ Agrees(file')
      BY <2>4, <2>5, <3>3, MissingIs
    <3> QED BY <2>1, <2>2, <3>1, <3>2, <3>3, <3>4, <3>5, IdleGoes DEF Changed
  <2> QED BY <2>6, <2>7
<1> QED BY <1>1, <1>2

\* The answer to a second request writes back what was read only where nobody works, and
\* starts a worker only there.
LEMMA DuplicateDoes ==
  ASSUME UpdateInv, NEW m \in Update!Msgs, NEW f \in {seen, Update!Struck(seen)}, NEW start \in BOOLEAN,
         seen.state = "whole", start => f = Update!Struck(seen) /\ ~Update!Busy(f),
         Update!Duplicate(m, f, start)
  PROVE  Goes(m) /\ Changed(m)
<1>1. seen \in RequestFiles /\ file \in RequestFiles /\ Agrees(seen) /\ Agrees(file)
  BY DEF UpdateInv, UpdateTypes
<1>2. f \in RequestFiles /\ f.id = seen.id /\ Agrees(f) /\ f.id \in Update!Ids
  BY <1>1, StruckIs DEF Agrees
<1>3. Goes(m)
  BY <1>2, AnsweredIs DEF Update!Duplicate
<1>4. CASE f = seen /\ ~start
  BY <1>3, <1>4 DEF Update!Duplicate, Changed
<1>5. CASE f # seen \/ start
  <2>1. ~Update!Session /\ ~Update!GateLives(seen.gate)
    <3>1. CASE f # seen
      BY <1>1, <3>1, StruckIs
    <3>2. CASE start /\ f = seen
      <4>1. ~Update!GateLives(0)
        BY UpkeepAssumption DEF Update!GateLives, Update!Gates
      <4> QED BY <3>2, <4>1 DEF Update!Busy
    <3> QED BY <1>5, <3>1, <3>2
  <2>2. file = seen => NoneKept
    BY <2>1, KeptIsLive DEF NoneKept
  <2>3. /\ file' = file \/ file' = f
        /\ worker' = worker \/ Update!Launch(f.id)
    BY DEF Update!Duplicate
  <2> QED BY <1>1, <1>2, <1>3, <2>1, <2>2, <2>3 DEF Changed
<1> QED BY <1>4, <1>5

\* So does every look that leads to one of the two.
LEMMA ConsiderDoes ==
  ASSUME UpdateInv, NEW m \in Update!Msgs, Update!Consider(m)
  PROVE  Goes(m) /\ Changed(m)
<1> DEFINE f == Update!Struck(seen)
<1>1. CASE Update!Reserves(m)
  <2>1. Update!Reserve(m)
    BY <1>1 DEF Update!Consider
  <2> QED BY <1>1, <2>1, ReserveDoes
<1>2. CASE ~Update!Reserves(m) /\ seen.state = "whole" /\ Update!Settled(seen)
  <2>1. Update!Duplicate(m, seen, FALSE)
    BY <1>2, Zenon DEF Update!Consider
  <2> QED BY <1>2, <2>1, DuplicateDoes
<1>3. CASE ~Update!Reserves(m) /\ seen.state = "whole" /\ ~Update!Settled(seen)
  <2> DEFINE start == ~Update!Busy(f) /\ (f.outcome => ~f.old)
  <2>1. Update!Duplicate(m, f, start)
    BY <1>3, Zenon DEF Update!Consider
  <2>2. start \in BOOLEAN /\ (start => ~Update!Busy(f))
    OBVIOUS
  <2> HIDE DEF start, f
  <2> QED BY <1>3, <2>1, <2>2, DuplicateDoes DEF f
<1>4. CASE ~Update!Reserves(m) /\ seen.state # "whole"
  <2>1. /\ call' = [call EXCEPT ![m] = Update!Idle] /\ UNCHANGED <<file, worker>>
        /\ auto' = IF m = Automatic THEN [auto EXCEPT !.step = "idle"] ELSE auto
    BY <1>4, Zenon DEF Update!Consider
  <2>2. auto' \in AutoChecks
    <3>1. auto \in AutoChecks
      BY DEF UpdateInv, UpdateTypes
    <3> QED BY <2>1, <3>1, Zenon DEF AutoChecks
  <2> QED BY <2>1, <2>2, IdleGoes DEF Changed
<1> QED BY <1>1, <1>2, <1>3, <1>4

\* A look at the file keeps the invariant, whatever was written since it was read.
LEMMA ActKeeps ==
  ASSUME UpdateInv, NEW m \in Update!Msgs, Update!Act(m)
  PROVE  UpdateInv'
<1>1. /\ call[m].step = "look" /\ Update!Consider(m) /\ seen' = Update!Missing
      /\ lost' = IF file' # file \/ worker' # worker THEN lost \cup Update!Overlooked ELSE lost
      /\ UNCHANGED <<gates, lock, reserved, up, failures>>
  BY DEF Update!Act
<1>2. Goes(m) /\ Changed(m)
  BY <1>1, ConsiderDoes
<1>3. call' \in [Update!Msgs -> UpdateCalls] /\ auto' \in AutoChecks /\ CallsAgree' /\ ~Update!At("look")'
  BY <1>1, <1>2, GoesKeeps
<1>4. lost' \in SUBSET Update!Living(Update!Gates) /\ lost \subseteq lost'
      /\ UNCHANGED Update!Living(Update!Gates)
  BY <1>1 DEF UpdateInv, UpdateTypes, Update!Overlooked, Update!Living, Update!GateLives
<1>5. CASE UNCHANGED <<file, worker>>
  <2>1. /\ UNCHANGED <<file, worker, gates, lost>> /\ seen'.told = FALSE /\ seen'.state = "none"
        /\ seen' \in RequestFiles /\ seen'.id = 0
    BY <1>1, <1>5, MissingIs DEF RequestFiles
  <2>2. SeenIsOlder' /\ Agrees(seen')
    BY <1>3, <2>1 DEF SeenIsOlder, Agrees
  <2>3. WithdrawnIsGone'
    BY <2>1, UpkeepAssumption DEF UpdateInv, WithdrawnIsGone, WorkerAt, Update!Session, Update!Ids
  <2>4. UpdateTypes'
    BY <1>1, <1>3, <1>4, <2>1 DEF UpdateInv, UpdateTypes
  <2> QED BY <1>3, <2>1, <2>2, <2>3, <2>4 DEF UpdateInv, UpdaterIsNamed, UpdateKept, WorkerAt, NoneKept,
             AtWork, WorksForFile, Agrees, Update!Session
<1>6. CASE file' # file \/ worker' # worker
  <2>1. \A g \in Update!Gates : UpdateKept(g) => g \in lost'
    <3> SUFFICES ASSUME NEW g \in Update!Gates, UpdateKept(g) PROVE g \in lost'
      OBVIOUS
    <3>1. g \in Update!Living({file.gate})
      BY KeptIsLive
    <3>2. file # seen
      BY <1>2, <1>6 DEF Changed, Replaceable, NoneKept
    <3> QED BY <1>1, <1>6, <3>1, <3>2 DEF Update!Overlooked
  <2>2. /\ file' \in RequestFiles /\ Agrees(file')
        /\ \/ /\ worker' = worker /\ ~(AtWork /\ ~worker.withdrawn)
              /\ Update!Session => file'.id # worker.id
           \/ ~Update!Session /\ \E i \in Update!Ids : Update!Launch(i)
    BY <1>2, <1>6 DEF Changed, Replaceable, AtWork, Update!Session
  <2>3. Rewritten'
    BY <1>1, <1>3, <1>4, <2>1, <2>2, RewriteKeeps
  <2>4. UpdateTypes'
    BY <1>1, <1>3, <1>4, <2>3 DEF UpdateInv, UpdateTypes, Rewritten
  <2> QED BY <1>3, <2>3, <2>4, RestIs
<1> QED BY <1>5, <1>6

\* A call that reads the file to look at it.
LEMMA LookKeeps ==
  ASSUME UpdateInv, NEW m \in Update!Msgs, Update!Free, Update!Look(m),
         UNCHANGED <<file, worker, gates, lock, reserved, auto, up, lost>>
  PROVE  UpdateInv'
<1>1. /\ ~Update!At("look") /\ seen = Update!Missing /\ failures' \in 0 .. MaxFailures
      /\ UNCHANGED Update!Living(Update!Gates)
  BY UpkeepAssumption DEF Update!Free, Update!Look, Update!Meets, Update!Fault, UpdateInv, UpdateTypes,
     CallsAgree, Update!Living, Update!GateLives
<1>2. call \in [Update!Msgs -> UpdateCalls]
  BY DEF UpdateInv, UpdateTypes
<1>3. PICK s \in {"reread", "look"} :
        /\ call' = [call EXCEPT ![m] = [call[m] EXCEPT !.step = s]]
        /\ s = "reread" => seen' = seen
        /\ s = "look" => seen' = file
  <2>1. CASE call[m].step = "idle" /\ file.state = "broken"
    BY <2>1, Zenon DEF Update!Look
  <2>2. CASE ~(call[m].step = "idle" /\ file.state = "broken")
    BY <2>2, Zenon DEF Update!Look
  <2> QED BY <2>1, <2>2
<1>4. [call[m] EXCEPT !.step = s] \in UpdateCalls /\ [call[m] EXCEPT !.step = s].step = s
  BY <1>2 DEF UpdateCalls
<1>5. call' \in [Update!Msgs -> UpdateCalls] /\ call'[m].step = s
      /\ \A n \in Update!Msgs : n # m => call'[n] = call[n]
  <2> DEFINE c == [call[m] EXCEPT !.step = s]
  <2>1. call' = [call EXCEPT ![m] = c] /\ c \in UpdateCalls /\ c.step = s
    BY <1>3, <1>4
  <2> HIDE DEF c
  <2> QED BY <1>2, <2>1
<1>6. CallsAgree' /\ (Update!At("look")' => s = "look")
  BY <1>1, <1>3, <1>5 DEF UpdateInv, CallsAgree, Update!At
<1>7. SeenIsOlder'
  <2>1. CASE s = "look"
    BY <1>3, <2>1 DEF SeenIsOlder
  <2>2. CASE s = "reread"
    BY <1>1, <1>3, <1>6, <2>2, MissingIs DEF SeenIsOlder
  <2> QED BY <2>1, <2>2
<1>8. seen' \in {seen, file}
  BY <1>3
<1>9. UpdateTypes'
  BY <1>1, <1>5, <1>8 DEF UpdateInv, UpdateTypes
<1> QED BY <1>6, <1>7, <1>8, <1>9 DEF UpdateInv, UpdaterIsNamed, UpdateKept, WorkerAt, NoneKept,
           AtWork, WorksForFile, Agrees, WithdrawnIsGone, Update!Session

\* The caller gives its request up.
LEMMA WithdrawKeeps ==
  ASSUME UpdateInv, NEW m \in Update!Msgs, Update!Free, Update!Withdraw(call[m].id),
         call[m].step = "accepting",
         call' = [call EXCEPT ![m] = Update!Idle], failures' \in 0 .. MaxFailures,
         UNCHANGED <<gates, lock, seen, reserved, auto, up>>
  PROVE  UpdateInv'
<1> DEFINE id == call[m].id
<1>1. ~Update!At("look") /\ seen = Update!Missing
  BY DEF Update!Free, UpdateInv, CallsAgree
<1>2. Goes(m)
  BY IdleGoes DEF UpdateInv, UpdateTypes
<1>3. call' \in [Update!Msgs -> UpdateCalls] /\ CallsAgree' /\ ~Update!At("look")'
  BY <1>1, <1>2, GoesKeeps
<1>4. lost' \in SUBSET Update!Living(Update!Gates) /\ lost \subseteq lost'
      /\ UNCHANGED Update!Living(Update!Gates)
  BY DEF UpdateInv, UpdateTypes, WorkerAt, Update!Withdraw, Update!Living, Update!GateLives
<1>5. CASE file.id # id
  <2>1. UNCHANGED <<file, worker, lost, gates, seen>>
    BY <1>5 DEF Update!Withdraw
  <2>2. UpdateTypes'
    BY <1>3, <1>4, <2>1 DEF UpdateInv, UpdateTypes
  <2> QED BY <1>1, <1>3, <2>1, <2>2 DEF UpdateInv, UpdaterIsNamed, UpdateKept, WorkerAt, NoneKept,
           AtWork, WorksForFile, Agrees, WithdrawnIsGone, SeenIsOlder, Update!Session
<1>6. CASE file.id = id
  <2>1. file' = Update!Missing /\ Agrees(file')
    BY <1>6, MissingIs DEF Update!Withdraw, Agrees
  <2>2. (worker' = worker /\ worker.id # id) \/ worker' = [worker EXCEPT !.withdrawn = TRUE]
    BY <1>6 DEF Update!Withdraw
  <2>3. worker.id # id => ~(AtWork /\ ~worker.withdrawn)
    BY <1>6 DEF UpdateInv, WorksForFile
  <2>4. id \in Update!Ids /\ (Update!Session => worker.id \in Update!Ids)
    BY DEF UpdateInv, CallsAgree, WorkerAt
  <2>5. file'.id = 0 /\ 0 \notin Update!Ids
    BY <2>1, MissingIs, UpkeepAssumption DEF Update!Ids
  <2>6. \A g \in Update!Gates : UpdateKept(g) => g \in lost'
    <3> SUFFICES ASSUME NEW g \in Update!Gates, UpdateKept(g) PROVE g \in lost'
      OBVIOUS
    <3>1. g = file.gate /\ Update!GateLives(g)
      BY KeptIsLive
    <3> QED BY <1>6, <3>1 DEF Update!Withdraw, Update!Living
  <2>7. \/ /\ worker' = worker /\ ~(AtWork /\ ~worker.withdrawn)
           /\ Update!Session => file'.id # worker.id
        \/ worker' = [worker EXCEPT !.withdrawn = TRUE] /\ file'.id # worker.id
    <3>1. CASE worker' = worker /\ worker.id # id
      BY <2>3, <2>4, <2>5, <3>1
    <3>2. CASE worker.id = id
      BY <2>2, <2>4, <2>5, <3>2
    <3> QED BY <1>6, <2>2, <3>1, <3>2 DEF Update!Withdraw
  <2>8. Rewritten'
    BY <1>1, <1>3, <1>4, <2>1, <2>6, <2>7, MissingIs, RewriteKeeps
  <2>9. UpdateTypes'
    BY <1>3, <1>4, <2>8 DEF UpdateInv, UpdateTypes, Rewritten
  <2> QED BY <1>3, <2>8, <2>9, RestIs
<1> QED BY <1>5, <1>6

\* The request, its workers and gates stand still.
LEMMA StillKeeps ==
  ASSUME UpdateInv, UNCHANGED <<file, worker, gates, seen, lost>>, CallsAgree',
         Update!At("look")' => Update!At("look"),
         lock' \in 0 .. MaxGates + 1, call' \in [Update!Msgs -> UpdateCalls],
         reserved' \in SUBSET People, auto' \in AutoChecks, up' \in BOOLEAN,
         failures' \in 0 .. MaxFailures
  PROVE  UpdateInv'
<1>1. UNCHANGED Update!Living(Update!Gates)
  BY DEF Update!Living, Update!GateLives
<1>2. UpdateTypes'
  BY <1>1 DEF UpdateInv, UpdateTypes
<1> QED BY <1>2 DEF UpdateInv, UpdaterIsNamed, UpdateKept, WorkerAt, NoneKept,
           AtWork, WorksForFile, Agrees, WithdrawnIsGone, SeenIsOlder, Update!Session

\* The posted acceptance starts a worker for its request, if that is still the file's, or
\* finds one and withdraws it.
LEMMA AcceptedKeeps ==
  ASSUME UpdateInv, NEW m \in Update!Msgs, Update!Accepted(m)
  PROVE  UpdateInv'
<1>1. /\ Update!Free /\ call[m].step = "accepting" /\ call' = [call EXCEPT ![m] = Update!Idle]
      /\ UNCHANGED <<gates, lock, seen, auto, up, failures>>
  BY DEF Update!Accepted
<1> DEFINE id == call[m].id
<1>2. /\ m \in People /\ id \in Update!Ids /\ ~Update!At("look") /\ seen = Update!Missing
      /\ failures \in 0 .. MaxFailures /\ auto \in AutoChecks /\ up \in BOOLEAN
      /\ lock \in 0 .. MaxGates + 1
  BY <1>1 DEF UpdateInv, UpdateTypes, CallsAgree, Update!Free
<1>3. CASE lock = 0 /\ Update!Session
  BY <1>1, <1>2, <1>3, WithdrawKeeps DEF Update!Accepted
<1>4. call' \in [Update!Msgs -> UpdateCalls] /\ CallsAgree' /\ ~Update!At("look")'
  <2>1. Goes(m)
    BY <1>1, <1>2, IdleGoes
  <2> QED BY <1>1, <1>2, <2>1, GoesKeeps
<1>5. ~(lock = 0 /\ Update!Session) => reserved' \in SUBSET People /\ file' = file
  BY <1>2 DEF Update!Accepted, UpdateInv, UpdateTypes
<1>6. CASE lock # 0
  <2>1. UNCHANGED <<worker, lost>>
    BY <1>6 DEF Update!Accepted
  <2> QED BY <1>1, <1>2, <1>4, <1>5, <1>6, <2>1, StillKeeps
<1>7. CASE lock = 0 /\ ~Update!Session
  <2>1. /\ Update!Launch(id)
        /\ lost' = IF file.id = id THEN lost \cup Update!Living({file.gate}) ELSE lost
    BY <1>7 DEF Update!Accepted
  <2>2. worker' \in UpdateWorkers /\ worker'.step = "begin" /\ worker'.id = id /\ ~worker'.withdrawn
    BY <1>2, <2>1, LaunchIs
  <2>3. lost' \in SUBSET Update!Living(Update!Gates) /\ lost \subseteq lost'
        /\ UNCHANGED Update!Living(Update!Gates)
    BY <1>1, <2>1 DEF UpdateInv, UpdateTypes, Update!Living, Update!GateLives
  <2>4. UpdateTypes'
    BY <1>1, <1>2, <1>4, <1>5, <1>7, <2>2, <2>3 DEF UpdateInv, UpdateTypes
  <2>5. CASE file.id = id
    <3>1. \A g \in Update!Gates : UpdateKept(g) => g \in lost'
      BY <2>1, <2>5, KeptIsLive
    <3>2. Rewritten'
      <4>1. file \in RequestFiles /\ Agrees(file)
        BY DEF UpdateInv, UpdateTypes
      <4>2. file' \in RequestFiles /\ Agrees(file') /\ seen' = Update!Missing
        BY <1>1, <1>2, <1>5, <1>7, <4>1
      <4>3. ~Update!Session /\ \E i \in Update!Ids : Update!Launch(i)
        BY <1>2, <1>7, <2>1
      <4> QED BY <1>1, <1>4, <2>3, <3>1, <4>2, <4>3, RewriteKeeps
    <3> QED BY <1>4, <2>4, <3>2, RestIs
  <2>6. CASE file.id # id
    <3>1. UNCHANGED <<file, gates, seen, lost>>
      BY <1>1, <1>5, <1>7, <2>1, <2>6
    <3>2. UpdaterIsNamed'
      BY <1>7, <2>2, <3>1 DEF UpdateInv, UpdaterIsNamed, UpdateKept
    <3>3. WorkerAt' /\ WorksForFile' /\ WithdrawnIsGone'
      BY <1>2, <2>2, <2>6, <3>1 DEF WorkerAt, AtWork, WorksForFile, WithdrawnIsGone
    <3> QED BY <1>4, <2>4, <3>1, <3>2, <3>3 DEF UpdateInv, Agrees, SeenIsOlder
  <2> QED BY <2>5, <2>6
<1> QED BY <1>3, <1>6, <1>7

\* An answer that cannot be posted takes its own request away and no other.
LEMMA PostFailsKeeps ==
  ASSUME UpdateInv, NEW m \in Update!Msgs, Update!PostFails(m)
  PROVE  UpdateInv'
<1>1. /\ Update!Free /\ call' = [call EXCEPT ![m] = Update!Idle]
      /\ UNCHANGED <<gates, lock, seen, reserved, auto, up>>
      /\ failures' \in 0 .. MaxFailures
  BY UpkeepAssumption DEF Update!PostFails, Update!Fault, UpdateInv, UpdateTypes
<1>2. CASE call[m].step = "accepting"
  BY <1>1, <1>2, WithdrawKeeps DEF Update!PostFails
<1>3. CASE call[m].step # "accepting"
  <2>1. UNCHANGED <<file, worker, lost>>
    BY <1>3 DEF Update!PostFails
  <2>2. auto' \in AutoChecks /\ ~Update!At("look") /\ seen' = Update!Missing
    BY <1>1 DEF Update!Free, UpdateInv, UpdateTypes, CallsAgree
  <2>3. call' \in [Update!Msgs -> UpdateCalls] /\ CallsAgree' /\ ~Update!At("look")'
    BY <1>1, <2>2, IdleGoes, GoesKeeps
  <2> QED BY <1>1, <2>1, <2>3, StillKeeps DEF UpdateInv, UpdateTypes
<1> QED BY <1>2, <1>3

\* A person told of the running update is remembered, and nothing else changes.
LEMMA DuplicateToldKeeps ==
  ASSUME UpdateInv, NEW m \in Update!Msgs, Update!DuplicateTold(m)
  PROVE  UpdateInv'
<1>1. /\ call' = [call EXCEPT ![m] = Update!Idle] /\ reserved' = reserved \cup {m}
      /\ UNCHANGED <<file, worker, gates, lock, seen, auto, up, lost, failures>>
      /\ m \in People /\ Update!Free
  BY DEF Update!DuplicateTold, UpdateInv, CallsAgree
<1>2. auto' \in AutoChecks /\ ~Update!At("look") /\ seen' = Update!Missing
  BY <1>1 DEF Update!Free, UpdateInv, UpdateTypes, CallsAgree
<1>3. call' \in [Update!Msgs -> UpdateCalls] /\ CallsAgree' /\ ~Update!At("look")'
  BY <1>1, <1>2, IdleGoes, GoesKeeps
<1> QED BY <1>1, <1>3, StillKeeps DEF UpdateInv, UpdateTypes

\* The gateway resumes a request that no live gate works for.
LEMMA ResumeKeeps ==
  ASSUME UpdateInv, Update!Resume
  PROVE  UpdateInv'
<1>1. /\ Update!Free /\ Update!Resumable /\ file' = Update!Struck(file) /\ Update!Launch(file.id)
      /\ UNCHANGED <<gates, lock, call, seen, reserved, auto, up, lost>>
      /\ failures' \in 0 .. MaxFailures
  BY UpkeepAssumption DEF Update!Resume, Update!Meets, Update!Fault, UpdateInv, UpdateTypes
<1>2. file.state = "whole" /\ ~Update!Session /\ ~Update!GateLives(file.gate) /\ file.id \in Update!Ids
  BY <1>1, UpkeepAssumption DEF Update!Resumable, Update!GateLives, Update!Gates, UpdateInv, Agrees
<1>3. ~Update!At("look") /\ seen' = Update!Missing /\ file \in RequestFiles /\ Agrees(file)
  BY <1>1 DEF Update!Free, UpdateInv, UpdateTypes, CallsAgree
<1>4. file' \in RequestFiles /\ Agrees(file')
  BY <1>1, <1>3, StruckIs DEF Agrees
<1>5. CallsAgree' /\ ~Update!At("look")' /\ UNCHANGED Update!Living(Update!Gates)
  BY <1>1, <1>3 DEF UpdateInv, CallsAgree, Update!At, Update!Living, Update!GateLives
<1>6. \A g \in Update!Gates : UpdateKept(g) => g \in lost'
  BY <1>2, KeptIsLive
<1>7. Rewritten'
  BY <1>1, <1>2, <1>3, <1>4, <1>5, <1>6, RewriteKeeps
<1>8. UpdateTypes'
  BY <1>1, <1>5, <1>7 DEF UpdateInv, UpdateTypes, Rewritten
<1> QED BY <1>5, <1>7, <1>8, RestIs

\* Steps of the automatic check.
LEMMA AutoKeeps ==
  ASSUME UpdateInv, Update!AutoCheck \/ Update!AutoEnds
  PROVE  UpdateInv'
<1>1. UNCHANGED <<file, worker, gates, lock, call, seen, reserved, up, lost, failures>>
  BY DEF Update!AutoCheck, Update!AutoEnds
<1>2. auto' \in AutoChecks
  <2>0. auto \in AutoChecks
    BY DEF UpdateInv, UpdateTypes
  <2>1. CASE Update!AutoCheck
    <3>1. auto.checks + 1 \in 0 .. MaxChecks /\ 0 \in 0 .. MaxIds
      BY <2>0, <2>1, UpkeepAssumption DEF AutoChecks, Update!AutoCheck
    <3> QED BY <2>1, <3>1 DEF AutoChecks, Update!AutoCheck
  <2>2. CASE Update!AutoEnds
    <3>1. auto' = [auto EXCEPT !.step = "idle"]
      BY <2>2 DEF Update!AutoEnds
    <3> QED BY <2>0, <3>1, Zenon DEF AutoChecks
  <2> QED BY <2>1, <2>2
<1>3. CallsAgree' /\ (Update!At("look")' => Update!At("look"))
  BY <1>1 DEF UpdateInv, CallsAgree, Update!At
<1> QED BY <1>1, <1>2, <1>3, StillKeeps DEF UpdateInv, UpdateTypes

\* Steps that touch neither the request nor those who work on it.
LEMMA OtherUpdateSteps ==
  ASSUME UpdateInv,
         Update!GatewayStarts \/ Update!ManualUpdate \/ Update!ManualEnds
           \/ \E g \in Update!Gates : Update!TakeLock(g)
  PROVE  UpdateInv'
<1>0. /\ MaxGates \in Nat /\ MaxFailures \in Nat /\ up \in BOOLEAN /\ lock \in 0 .. MaxGates + 1
      /\ failures \in 0 .. MaxFailures
  BY UpkeepAssumption DEF UpdateInv, UpdateTypes
<1>1. /\ UNCHANGED <<file, worker, gates, call, seen, reserved, auto, lost>>
      /\ up' \in BOOLEAN /\ lock' \in 0 .. MaxGates + 1 /\ failures' \in 0 .. MaxFailures
  <2>1. CASE Update!GatewayStarts
    BY <1>0, <2>1 DEF Update!GatewayStarts
  <2>2. CASE Update!ManualUpdate
    BY <1>0, <2>2 DEF Update!ManualUpdate, Update!Fault
  <2>3. CASE Update!ManualEnds
    BY <1>0, <2>3 DEF Update!ManualEnds
  <2>4. CASE \E g \in Update!Gates : Update!TakeLock(g)
    BY <1>0, <2>4 DEF Update!TakeLock, Update!Gates
  <2> QED BY <2>1, <2>2, <2>3, <2>4
<1>2. CallsAgree' /\ (Update!At("look")' => Update!At("look"))
  BY <1>1 DEF UpdateInv, CallsAgree, Update!At
<1> QED BY <1>1, <1>2, StillKeeps DEF UpdateInv, UpdateTypes

\* The gateway dies: what a look has read is forgotten, and what the death tears was free
\* to be replaced.
LEMMA GatewayDiesKeeps ==
  ASSUME UpdateInv, Update!GatewayDies
  PROVE  UpdateInv'
<1>1. /\ UNCHANGED <<worker, gates, lock, reserved>> /\ failures' \in 0 .. MaxFailures
      /\ up' = FALSE /\ auto' = [auto EXCEPT !.step = "idle"] /\ seen' = Update!Missing
      /\ call' = [m \in Update!Msgs |-> Update!Idle]
  BY UpkeepAssumption DEF Update!GatewayDies, Update!Fault, UpdateInv, UpdateTypes
<1>2. auto' \in AutoChecks
  <2>1. auto \in AutoChecks
    BY DEF UpdateInv, UpdateTypes
  <2> QED BY <1>1, <2>1, Zenon DEF AutoChecks
<1>3. Update!Idle \in UpdateCalls /\ Update!Idle.step = "idle"
  BY UpkeepAssumption DEF UpdateCalls, Update!Idle
<1>4. call' \in [Update!Msgs -> UpdateCalls] /\ CallsAgree' /\ ~Update!At("look")'
  BY <1>1, <1>3 DEF CallsAgree, Update!At
<1>5. UNCHANGED Update!Living(Update!Gates)
  BY <1>1 DEF Update!Living, Update!GateLives
<1>6. CASE UNCHANGED <<file, lost>>
  <2>1. seen' \in RequestFiles /\ Agrees(seen') /\ seen'.id = 0 /\ seen'.state = "none"
    BY <1>1, MissingIs DEF Agrees
  <2>2. SeenIsOlder'
    BY <1>4, <2>1 DEF SeenIsOlder
  <2>3. WithdrawnIsGone'
    BY <1>1, <1>6, <2>1, UpkeepAssumption DEF UpdateInv, WithdrawnIsGone, WorkerAt, Update!Session, Update!Ids
  <2>4. UpdateTypes'
    BY <1>1, <1>2, <1>4, <1>5, <1>6, <2>1 DEF UpdateInv, UpdateTypes
  <2> QED BY <1>1, <1>4, <1>6, <2>1, <2>2, <2>3, <2>4 DEF UpdateInv, UpdaterIsNamed, UpdateKept, WorkerAt,
             NoneKept, AtWork, WorksForFile, Agrees, Update!Session
<1>7. CASE /\ file' \in {Update!Missing, Update!Broken} /\ lost' = lost \cup Update!Overlooked
           /\ \E m \in Update!Msgs : call[m].step = "look" /\ Update!Reserves(m) /\ Update!Cleared = Update!Missing
  <2>1. PICK m \in Update!Msgs : Replaceable(m)
    BY <1>7, ReservesIs
  <2>2. file' \in RequestFiles /\ Agrees(file') /\ file'.id = 0
    BY <1>7, MissingIs DEF Agrees
  <2>3. lost' \in SUBSET Update!Living(Update!Gates) /\ lost \subseteq lost'
    BY <1>7 DEF UpdateInv, UpdateTypes, Update!Overlooked, Update!Living, Update!GateLives
  <2>4. \A g \in Update!Gates : UpdateKept(g) => g \in lost'
    BY <1>7, <2>1, KeptIsLive DEF Update!Overlooked, Replaceable, NoneKept
  <2>5. /\ worker' = worker /\ ~(AtWork /\ ~worker.withdrawn)
        /\ Update!Session => file'.id # worker.id
    BY <1>1, <2>1, <2>2, UpkeepAssumption DEF Replaceable, UpdateInv, WorkerAt, Update!Ids
  <2>6. Rewritten'
    BY <1>1, <1>4, <2>2, <2>3, <2>4, <2>5, RewriteKeeps
  <2>7. UpdateTypes'
    BY <1>1, <1>2, <1>4, <1>5, <2>3, <2>6 DEF UpdateInv, UpdateTypes, Rewritten
  <2> QED BY <1>4, <2>6, <2>7, RestIs
<1> QED BY <1>6, <1>7 DEF Update!GatewayDies

\* Six hours pass.
LEMMA AgesKeeps ==
  ASSUME UpdateInv, Update!Ages
  PROVE  UpdateInv'
<1>1. /\ UNCHANGED <<worker, gates, lock, call, seen, reserved, auto, up, lost>>
      /\ failures' \in 0 .. MaxFailures
      /\ file' = [file EXCEPT !.old = TRUE]
  BY UpkeepAssumption DEF Update!Ages, Update!Fault, UpdateInv, UpdateTypes
<1>2. /\ file' \in RequestFiles /\ file'.id = file.id /\ file'.state = file.state /\ file'.msg = file.msg
      /\ file'.gate = file.gate /\ file'.outcome = file.outcome /\ file'.told = file.told
      /\ file'.old
  <2>1. file \in RequestFiles
    BY DEF UpdateInv, UpdateTypes
  <2> QED BY <1>1, <2>1 DEF RequestFiles
<1>3. CallsAgree' /\ (Update!At("look")' <=> Update!At("look")) /\ UNCHANGED Update!Living(Update!Gates)
  BY <1>1 DEF UpdateInv, CallsAgree, Update!At, Update!Living, Update!GateLives
<1>4. UpdateTypes'
  BY <1>1, <1>2, <1>3 DEF UpdateInv, UpdateTypes
<1> QED BY <1>1, <1>2, <1>3, <1>4 DEF UpdateInv, UpdaterIsNamed, UpdateKept, WorkerAt, NoneKept,
           AtWork, WorksForFile, Agrees, WithdrawnIsGone, SeenIsOlder, Update!Session

\* What a worker writes while a call looks: the call read before, or reads it.
LEMMA WritesIs ==
  ASSUME UpdateInv, NEW f \in RequestFiles, Update!Writes(f), UNCHANGED call, Agrees(f),
         seen.state = "whole" /\ seen.id = f.id =>
           /\ seen.told => f.told
           /\ seen.outcome => f.outcome
           /\ seen.old /\ seen.outcome = f.outcome => f.old \/ f.told,
         Update!At("look") /\ f.state = "whole" /\ f.id # seen.id => f.outcome
  PROVE  /\ file' = f /\ seen' \in {seen, f} /\ Agrees(file)' /\ Agrees(seen)'
         /\ file' \in RequestFiles /\ seen' \in RequestFiles
         /\ failures' \in 0 .. MaxFailures /\ CallsAgree' /\ SeenIsOlder'
<1>1. /\ file' = f /\ failures' \in 0 .. MaxFailures
      /\ seen' = seen \/ (Update!At("look") /\ seen' = f)
  BY UpkeepAssumption DEF Update!Writes, Update!Fault, UpdateInv, UpdateTypes
<1>2. CallsAgree' /\ (Update!At("look")' <=> Update!At("look"))
  BY <1>1 DEF UpdateInv, CallsAgree, Update!At
<1>3. SeenIsOlder'
  BY <1>1, <1>2 DEF SeenIsOlder
<1> QED BY <1>1, <1>2, <1>3 DEF UpdateInv, UpdateTypes, Agrees

\* The calls do not change when they stand still.
LEMMA AsideIs ==
  ASSUME UpdateInv, UNCHANGED call, UNCHANGED seen
  PROVE  CallsAgree' /\ (Update!At("look")' <=> Update!At("look"))
  BY DEF UpdateInv, CallsAgree, Update!At

\* A worker begins with the request in the file: it starts a gate, or has only to tell.
LEMMA BeginKeeps ==
  ASSUME UpdateInv, Update!Begin
  PROVE  UpdateInv'
<1>1. /\ worker.step = "begin" /\ UNCHANGED <<file, lock, call, seen, reserved, auto, up, lost, failures>>
      /\ worker \in UpdateWorkers /\ file \in RequestFiles /\ gates \in [Update!Gates -> GateStates]
      /\ worker.id \in Update!Ids
  BY DEF Update!Begin, UpdateInv, UpdateTypes, WorkerAt, Update!Session
<1>2. CallsAgree' /\ (Update!At("look")' <=> Update!At("look"))
  BY <1>1, AsideIs
<1>3. SeenIsOlder' /\ Agrees(file') /\ Agrees(seen')
  BY <1>1, <1>2 DEF UpdateInv, SeenIsOlder
<1>4. CASE file.state # "whole" \/ file.id # worker.id \/ Update!Settled(file)
  <2>1. worker' = Update!Off /\ gates' = gates
    BY <1>1, <1>4 DEF Update!Begin
  <2>2. worker' \in UpdateWorkers /\ worker'.step = "off"
    BY <2>1, OffIs
  <2>3. UpdateTypes'
    BY <1>1, <2>1, <2>2 DEF UpdateInv, UpdateTypes, Update!Living, Update!GateLives
  <2>4. UpdaterIsNamed'
    BY <1>1, <2>1, <2>2 DEF UpdateInv, UpdaterIsNamed, UpdateKept
  <2> QED BY <1>2, <1>3, <2>2, <2>3, <2>4 DEF UpdateInv, WorkerAt, AtWork, WorksForFile, WithdrawnIsGone,
             Update!Session
<1>5. CASE file.state = "whole" /\ file.id = worker.id /\ ~Update!Settled(file)
  <2>1. NoneKept /\ ~worker.withdrawn /\ ~file.told
    BY <1>1, <1>5 DEF UpdateInv, WorkerAt, WithdrawnIsGone, Update!Settled, Update!Session
  <2>2. CASE file.outcome
    <3>1. worker' = [worker EXCEPT !.step = "notify", !.copy = file] /\ gates' = gates
      BY <1>1, <1>5, <2>2 DEF Update!Begin
    <3>2. /\ worker' \in UpdateWorkers /\ worker'.step = "notify" /\ worker'.copy = file
          /\ worker'.id = worker.id /\ worker'.withdrawn = worker.withdrawn
      <4>1. "notify" \in WorkerSteps
        BY DEF WorkerSteps
      <4> QED BY <1>1, <3>1, <4>1, Zenon DEF UpdateWorkers
    <3>3. UpdateTypes'
      BY <1>1, <3>1, <3>2 DEF UpdateInv, UpdateTypes, Update!Living, Update!GateLives
    <3>4. NoneKept'
      BY <1>1, <2>1, <3>1, <3>2 DEF NoneKept, UpdateKept
    <3> QED BY <1>1, <1>2, <1>3, <1>5, <2>1, <2>2, <3>2, <3>3, <3>4 DEF UpdateInv, UpdaterIsNamed, NoneKept,
               WorkerAt, AtWork, WorksForFile, WithdrawnIsGone, Update!Session
  <2>3. CASE ~file.outcome
    <3> DEFINE g == Update!NewGate
    <3>1. /\ Update!FreshGates # {} /\ gates' = [gates EXCEPT ![g] = "waiting"]
          /\ worker' = [worker EXCEPT !.step = "handshake", !.copy = file, !.gate = g]
      BY <1>1, <1>5, <2>3 DEF Update!Begin
    <3>2. g \in Update!Gates /\ g \in 0 .. MaxGates /\ gates[g] = "none"
      BY <3>1, UpkeepAssumption DEF Update!NewGate, Update!FreshGates, Update!Gates, Update!GateLives
    <3> HIDE DEF g
    <3>3. /\ worker' \in UpdateWorkers /\ worker'.step = "handshake" /\ worker'.copy = file
          /\ worker'.id = worker.id /\ worker'.gate = g /\ worker'.withdrawn = worker.withdrawn
      <4>1. "handshake" \in WorkerSteps
        BY DEF WorkerSteps
      <4> QED BY <1>1, <3>1, <3>2, <4>1, Zenon DEF UpdateWorkers
    <3>4. gates' \in [Update!Gates -> GateStates] /\ gates'[g] = "waiting"
          /\ \A h \in Update!Gates : h # g => gates'[h] = gates[h]
      BY <1>1, <3>1, <3>2 DEF GateStates
    <3>5. NoneKept'
      BY <1>1, <2>1, <3>3, <3>4 DEF NoneKept, UpdateKept
    <3>6. UpdateTypes'
      BY <1>1, <3>3, <3>4 DEF UpdateInv, UpdateTypes, Update!Living, Update!GateLives
    <3>7. WorkerAt'
      BY <1>1, <1>5, <2>1, <3>2, <3>3, <3>4, <3>5 DEF WorkerAt, NoneKept, AtWork, Update!Session
    <3> QED BY <1>1, <1>2, <1>3, <1>5, <2>1, <2>3, <3>3, <3>5, <3>6, <3>7 DEF UpdateInv, UpdaterIsNamed,
               NoneKept, AtWork, WorksForFile, WithdrawnIsGone, Update!Session
  <2> QED BY <1>1, <2>2, <2>3 DEF RequestFiles
<1> QED BY <1>4, <1>5 DEF RequestFiles

\* A worker that concludes has an outcome in hand.
LEMMA ConcludesIs ==
  ASSUME UpdateInv, Update!Concludes
  PROVE  /\ worker' \in UpdateWorkers /\ worker'.step = "record" /\ worker'.id = worker.id
         /\ worker'.withdrawn = worker.withdrawn /\ worker'.copy.outcome
         /\ worker'.copy.id = worker.copy.id /\ worker'.copy.state = worker.copy.state
         /\ worker'.copy.told = worker.copy.told
<1> DEFINE c == [worker.copy EXCEPT !.outcome = TRUE, !.old = FALSE]
<1>1. worker \in UpdateWorkers /\ worker.copy \in RequestFiles /\ "record" \in WorkerSteps
  BY DEF UpdateInv, UpdateTypes, UpdateWorkers, WorkerSteps
<1>2. /\ c \in RequestFiles /\ c.outcome = TRUE /\ c.id = worker.copy.id /\ c.state = worker.copy.state
      /\ c.told = worker.copy.told
  BY <1>1, Zenon DEF RequestFiles
<1>3. worker' = [worker EXCEPT !.step = "record", !.copy = c]
  BY Zenon DEF Update!Concludes
<1> HIDE DEF c
<1>4. /\ worker' \in UpdateWorkers /\ worker'.step = "record" /\ worker'.id = worker.id
      /\ worker'.withdrawn = worker.withdrawn /\ worker'.copy = c
  BY <1>1, <1>2, <1>3, Zenon DEF UpdateWorkers
<1> QED BY <1>2, <1>4

\* A worker that concludes keeps the invariant once no updater is kept.
LEMMA ConcludeKeeps ==
  ASSUME UpdateInv, Update!Concludes, worker.step \in {"handshake", "start", "running"},
         UNCHANGED <<gates, lock, call, reserved, auto, up>>, failures' \in 0 .. MaxFailures,
         lost' \in SUBSET Update!Living(Update!Gates), NoneKept',
         file' \in RequestFiles, file'.id = file.id, file'.state = file.state, file'.told = file.told,
         file'.outcome = file.outcome, seen' \in {seen, file'}, CallsAgree', SeenIsOlder',
         Agrees(file)', Agrees(seen)'
  PROVE  UpdateInv'
<1>1. /\ worker' \in UpdateWorkers /\ worker'.step = "record" /\ worker'.id = worker.id
      /\ worker'.withdrawn = worker.withdrawn /\ worker'.copy.outcome
      /\ worker'.copy.id = worker.copy.id /\ worker'.copy.state = worker.copy.state
      /\ worker'.copy.told = worker.copy.told
  BY ConcludesIs
<1>2. UpdateTypes'
  BY <1>1 DEF UpdateInv, UpdateTypes, Update!Living, Update!GateLives
<1>3. WorkerAt'
  BY <1>1 DEF UpdateInv, WorkerAt, NoneKept, AtWork, Update!Session
<1>4. WorksForFile' /\ WithdrawnIsGone'
  BY <1>1 DEF UpdateInv, WorksForFile, WithdrawnIsGone, AtWork, Update!Session
<1> QED BY <1>2, <1>3, <1>4 DEF UpdateInv, UpdaterIsNamed, NoneKept

\* The worker writes the gate into the file before the gate may update.
LEMMA RegisterKeeps ==
  ASSUME UpdateInv, Update!Register
  PROVE  UpdateInv'
<1>1. /\ worker.step = "handshake" /\ UNCHANGED <<gates, lock, call, reserved, auto, up, lost>>
      /\ NoneKept /\ worker.gate \in Update!Gates /\ gates[worker.gate] = "waiting"
      /\ worker \in UpdateWorkers /\ file \in RequestFiles /\ gates \in [Update!Gates -> GateStates]
      /\ lost \in SUBSET Update!Living(Update!Gates) /\ UNCHANGED Update!Living(Update!Gates)
  BY DEF Update!Register, UpdateInv, WorkerAt, UpdateTypes, Update!Living, Update!GateLives
<1>2. CASE ~(file.state = "whole" /\ file.id = worker.id /\ ~file.outcome)
  <2>1. Update!Concludes /\ UNCHANGED <<file, seen, failures>>
    BY <1>2 DEF Update!Register
  <2>2. CallsAgree' /\ SeenIsOlder' /\ Agrees(file)' /\ Agrees(seen)'
    BY <1>1, <2>1, AsideIs DEF UpdateInv, SeenIsOlder, Agrees
  <2>3. NoneKept'
    BY <1>1, <2>1, ConcludesIs DEF NoneKept, UpdateKept
  <2> QED BY <1>1, <2>1, <2>2, <2>3, ConcludeKeeps DEF UpdateInv, UpdateTypes
<1>3. CASE file.state = "whole" /\ file.id = worker.id /\ ~file.outcome
  <2> DEFINE f == [file EXCEPT !.gate = worker.gate]
  <2>1. Update!Writes(f) /\ worker' = [worker EXCEPT !.step = "start"]
    BY <1>3, Zenon DEF Update!Register, Update!Registered
  <2>2. worker.gate \in 0 .. MaxGates
    BY <1>1 DEF UpdateWorkers
  <2>3. /\ f \in RequestFiles /\ f.state = file.state /\ f.id = file.id /\ f.outcome = file.outcome
        /\ f.told = file.told /\ f.old = file.old /\ f.gate = worker.gate
    BY <1>1, <2>2 DEF RequestFiles
  <2> HIDE DEF f
  <2>4. Agrees(f)
    BY <2>3 DEF UpdateInv, Agrees
  <2>5. /\ file' = f /\ seen' \in {seen, f} /\ Agrees(file)' /\ Agrees(seen)'
        /\ file' \in RequestFiles /\ seen' \in RequestFiles
        /\ failures' \in 0 .. MaxFailures /\ CallsAgree' /\ SeenIsOlder'
    BY <1>1, <2>1, <2>3, <2>4, WritesIs DEF UpdateInv, SeenIsOlder
  <2>6. /\ worker' \in UpdateWorkers /\ worker'.step = "start" /\ worker'.copy = worker.copy
        /\ worker'.id = worker.id /\ worker'.gate = worker.gate /\ worker'.withdrawn = worker.withdrawn
    <3>1. "start" \in WorkerSteps
      BY DEF WorkerSteps
    <3> QED BY <1>1, <2>1, <3>1, Zenon DEF UpdateWorkers
  <2>7. \A g \in Update!Gates : UpdateKept(g)' => g = worker.gate
    BY <1>1, <2>6 DEF NoneKept, UpdateKept
  <2>8. UpdaterIsNamed'
    BY <1>3, <2>3, <2>5, <2>7 DEF UpdaterIsNamed
  <2>9. WorkerAt'
    BY <1>1, <2>6, <2>7 DEF UpdateInv, WorkerAt, AtWork, Update!Session
  <2>10. WorksForFile' /\ WithdrawnIsGone'
    BY <1>1, <1>3, <2>3, <2>5, <2>6 DEF UpdateInv, WorksForFile, WithdrawnIsGone, AtWork, Update!Session
  <2>11. UpdateTypes'
    BY <1>1, <2>5, <2>6 DEF UpdateInv, UpdateTypes
  <2> QED BY <2>5, <2>8, <2>9, <2>10, <2>11 DEF UpdateInv
<1> QED BY <1>2, <1>3

\* A gate that could not be started, and an updater that was given up or has ended, leave
\* none that is kept.
LEMMA WorkerEndsKeeps ==
  ASSUME UpdateInv, Update!HandshakeFails \/ Update!TimesOut \/ Update!GateExit
  PROVE  UpdateInv'
<1>1. /\ Update!Concludes /\ worker.step \in {"handshake", "start", "running"}
      /\ UNCHANGED <<gates, lock, call, reserved, auto, up>>
      /\ UNCHANGED Update!Living(Update!Gates)
  BY DEF Update!HandshakeFails, Update!TimesOut, Update!GateExit, Update!Living, Update!GateLives
<1>2. /\ lost' \in SUBSET Update!Living(Update!Gates) /\ lost \subseteq lost'
  BY <1>1 DEF Update!HandshakeFails, Update!TimesOut, Update!GateExit, Update!Living,
     Update!GateLives, UpdateInv, UpdateTypes
<1>3. NoneKept'
  <2>1. worker'.step = "record"
    BY <1>1, ConcludesIs
  <2> SUFFICES ASSUME NEW g \in Update!Gates, UpdateKept(g)' PROVE FALSE
    BY DEF NoneKept
  <2>2. gates[g] = "updating" /\ g \notin lost' /\ UpdateKept(g)
    BY <1>1, <1>2, <2>1 DEF UpdateKept
  <2>3. CASE Update!HandshakeFails
    BY <2>2, <2>3 DEF Update!HandshakeFails, UpdateInv, WorkerAt, NoneKept
  <2>4. CASE Update!TimesOut
    BY <2>2, <2>4 DEF Update!TimesOut, UpdateInv, WorkerAt
  <2>5. CASE Update!GateExit
    BY <2>2, <2>5 DEF Update!GateExit, UpdateInv, WorkerAt, Update!GateLives
  <2> QED BY <2>3, <2>4, <2>5
<1>4. CASE UNCHANGED <<file, seen>>
  <2>1. failures' \in 0 .. MaxFailures
    BY <1>4, UpkeepAssumption DEF Update!HandshakeFails, Update!TimesOut, Update!GateExit, Update!Fault,
       Update!Writes, UpdateInv, UpdateTypes
  <2>2. CallsAgree' /\ SeenIsOlder' /\ Agrees(file)' /\ Agrees(seen)'
    BY <1>1, <1>4, AsideIs DEF UpdateInv, SeenIsOlder, Agrees
  <2> QED BY <1>1, <1>2, <1>3, <1>4, <2>1, <2>2, ConcludeKeeps DEF UpdateInv, UpdateTypes
<1>5. CASE Update!Writes([file EXCEPT !.gate = 0])
  <2> DEFINE f == [file EXCEPT !.gate = 0]
  <2>1. file \in RequestFiles /\ 0 \in 0 .. MaxGates
    BY UpkeepAssumption DEF UpdateInv, UpdateTypes
  <2>2. /\ f \in RequestFiles /\ f.state = file.state /\ f.id = file.id /\ f.outcome = file.outcome
        /\ f.told = file.told /\ f.old = file.old
    BY <2>1 DEF RequestFiles
  <2>3. Update!Writes(f)
    BY <1>5
  <2> HIDE DEF f
  <2>4. Agrees(f)
    BY <2>2 DEF UpdateInv, Agrees
  <2>5. /\ file' = f /\ seen' \in {seen, f} /\ Agrees(file)' /\ Agrees(seen)'
        /\ file' \in RequestFiles
        /\ failures' \in 0 .. MaxFailures /\ CallsAgree' /\ SeenIsOlder'
    BY <1>1, <2>2, <2>3, <2>4, WritesIs DEF UpdateInv, SeenIsOlder
  <2> QED BY <1>1, <1>2, <1>3, <2>2, <2>5, ConcludeKeeps
<1> QED BY <1>4, <1>5 DEF Update!HandshakeFails, Update!TimesOut, Update!GateExit

\* Only then does the gate become the updater, and it is the one the file names.
LEMMA StartUpdaterKeeps ==
  ASSUME UpdateInv, Update!StartUpdater
  PROVE  UpdateInv'
<1>1. /\ worker.step = "start" /\ UNCHANGED <<file, lock, call, seen, reserved, auto, up, lost, failures>>
      /\ worker.gate \in Update!Gates
      /\ worker \in UpdateWorkers /\ gates \in [Update!Gates -> GateStates]
      /\ gates' = [gates EXCEPT ![worker.gate] = "updating"] /\ worker' = [worker EXCEPT !.step = "running"]
      /\ gates[worker.gate] = "waiting"
  BY DEF Update!StartUpdater, UpdateInv, WorkerAt, UpdateTypes
<1>2. /\ worker' \in UpdateWorkers /\ worker'.step = "running" /\ worker'.copy = worker.copy
      /\ worker'.id = worker.id /\ worker'.gate = worker.gate /\ worker'.withdrawn = worker.withdrawn
  <2>1. "running" \in WorkerSteps
    BY DEF WorkerSteps
  <2> QED BY <1>1, <2>1, Zenon DEF UpdateWorkers
<1>3. /\ gates' \in [Update!Gates -> GateStates] /\ gates'[worker.gate] = "updating"
      /\ \A h \in Update!Gates : h # worker.gate => gates'[h] = gates[h]
  BY <1>1 DEF GateStates
<1>4. \A g \in Update!Gates : UpdateKept(g)' <=> UpdateKept(g)
  BY <1>1, <1>2, <1>3 DEF UpdateKept
<1>5. CallsAgree' /\ SeenIsOlder' /\ Agrees(file)' /\ Agrees(seen)'
  BY <1>1, AsideIs DEF UpdateInv, SeenIsOlder, Agrees
<1>6. UpdateTypes'
  BY <1>1, <1>2, <1>3 DEF UpdateInv, UpdateTypes, Update!Living, Update!GateLives
<1>7. WorkerAt' /\ UpdaterIsNamed'
  BY <1>1, <1>2, <1>3, <1>4 DEF UpdateInv, WorkerAt, UpdaterIsNamed, AtWork, Update!Session
<1> QED BY <1>1, <1>2, <1>5, <1>6, <1>7 DEF UpdateInv, WorksForFile, WithdrawnIsGone, AtWork, Update!Session

\* A gate or an updater that ends leaves the request as it is.
LEMMA GateEndsKeeps ==
  ASSUME UpdateInv, NEW g \in Update!Gates, Update!GateGivesUp(g) \/ Update!UpdaterEnds(g)
  PROVE  UpdateInv'
<1>1. /\ UNCHANGED <<file, worker, call, seen, reserved, auto, up, failures>>
      /\ gates \in [Update!Gates -> GateStates] /\ lock \in 0 .. MaxGates + 1
      /\ gates' = [gates EXCEPT ![g] = "none"] /\ lost' = lost \ {g}
      /\ worker.gate # g \/ worker.step \notin {"handshake", "start"}
  BY DEF Update!GateGivesUp, Update!UpdaterEnds, UpdateInv, UpdateTypes, WorkerAt
<1>2. lock' \in 0 .. MaxGates + 1
  BY <1>1, UpkeepAssumption DEF Update!GateGivesUp, Update!UpdaterEnds
<1>3. gates' \in [Update!Gates -> GateStates] /\ gates'[g] = "none"
      /\ \A h \in Update!Gates : h # g => gates'[h] = gates[h]
  BY <1>1 DEF GateStates
<1>4. \A h \in Update!Gates : UpdateKept(h)' => UpdateKept(h)
  BY <1>1, <1>3 DEF UpdateKept
<1>5. UpdateTypes'
  BY <1>1, <1>2, <1>3 DEF UpdateInv, UpdateTypes, Update!Living, Update!GateLives
<1>6. WorkerAt' /\ UpdaterIsNamed'
  BY <1>1, <1>3, <1>4 DEF UpdateInv, WorkerAt, NoneKept, UpdaterIsNamed, AtWork, Update!Session
<1>7. CallsAgree' /\ SeenIsOlder' /\ Agrees(file)' /\ Agrees(seen)'
  BY <1>1, AsideIs DEF UpdateInv, SeenIsOlder, Agrees
<1> QED BY <1>1, <1>5, <1>6, <1>7 DEF UpdateInv, WorksForFile, WithdrawnIsGone, AtWork, Update!Session

\* What a worker records or tells is its own request with an outcome.
LEMMA CopyWrites ==
  ASSUME UpdateInv, NEW f \in RequestFiles, Update!Writes(f), UNCHANGED call,
         worker.step \in {"record", "notify"}, f.id = worker.copy.id, f.state = "whole", f.outcome,
         f.told \/ (worker.step = "record" /\ f = worker.copy)
  PROVE  /\ file' = f /\ seen' \in {seen, f} /\ Agrees(file)' /\ Agrees(seen)'
         /\ file' \in RequestFiles /\ seen' \in RequestFiles
         /\ failures' \in 0 .. MaxFailures /\ CallsAgree' /\ SeenIsOlder'
<1>1. f.id = worker.id /\ worker.id \in Update!Ids
  BY DEF UpdateInv, WorkerAt, AtWork, Update!Session
<1>2. Agrees(f)
  BY <1>1 DEF Agrees
<1>3. f.told \/ (seen.state = "whole" /\ seen.id = f.id => ~seen.told /\ ~seen.outcome)
  <2> SUFFICES ASSUME worker.step = "record", seen.state = "whole", seen.id = f.id
               PROVE  ~seen.told /\ ~seen.outcome
    OBVIOUS
  <2>1. ~worker.withdrawn
    BY <1>1 DEF UpdateInv, WithdrawnIsGone, Update!Session
  <2>2. file.id = seen.id /\ ~file.told /\ ~file.outcome
    BY <1>1, <2>1 DEF UpdateInv, WorksForFile, AtWork
  <2> QED BY <2>2 DEF UpdateInv, SeenIsOlder
<1>4. seen.outcome \in BOOLEAN /\ f.outcome \in BOOLEAN
  BY DEF UpdateInv, UpdateTypes, RequestFiles
<1> QED BY <1>2, <1>3, <1>4, WritesIs

\* The outcome is written before anybody is told.
LEMMA RecordKeeps ==
  ASSUME UpdateInv, Update!Record
  PROVE  UpdateInv'
<1>1. /\ worker.step = "record" /\ UNCHANGED <<gates, lock, call, reserved, auto, up, lost>>
      /\ worker' = [worker EXCEPT !.step = "notify"] /\ Update!Writes(worker.copy)
      /\ worker \in UpdateWorkers /\ worker.copy \in RequestFiles /\ NoneKept
      /\ worker.copy.id = worker.id /\ worker.copy.state = "whole" /\ worker.copy.outcome
      /\ ~worker.copy.told
  BY DEF Update!Record, UpdateInv, WorkerAt, AtWork, UpdateTypes, UpdateWorkers
<1>2. /\ worker' \in UpdateWorkers /\ worker'.step = "notify" /\ worker'.copy = worker.copy
      /\ worker'.id = worker.id /\ worker'.withdrawn = worker.withdrawn
  <2>1. "notify" \in WorkerSteps
    BY DEF WorkerSteps
  <2> QED BY <1>1, <2>1, Zenon DEF UpdateWorkers
<1>3. /\ file' = worker.copy /\ Agrees(file)' /\ Agrees(seen)'
      /\ file' \in RequestFiles /\ seen' \in RequestFiles
      /\ failures' \in 0 .. MaxFailures /\ CallsAgree' /\ SeenIsOlder'
  BY <1>1, CopyWrites
<1>4. NoneKept'
  BY <1>1, <1>2 DEF NoneKept, UpdateKept
<1>5. UpdateTypes'
  BY <1>1, <1>2, <1>3 DEF UpdateInv, UpdateTypes, Update!Living, Update!GateLives
<1>6. WorkerAt' /\ UpdaterIsNamed'
  BY <1>1, <1>2, <1>4 DEF UpdateInv, WorkerAt, NoneKept, UpdaterIsNamed, AtWork, Update!Session
<1> QED BY <1>1, <1>2, <1>3, <1>5, <1>6 DEF UpdateInv, WorksForFile, WithdrawnIsGone, AtWork

\* The worker that has told, could not tell, or dies, leaves.
LEMMA TellKeeps ==
  ASSUME UpdateInv, Update!Tell \/ Update!TellFails \/ Update!WorkerDies
  PROVE  UpdateInv'
<1> DEFINE f == [worker.copy EXCEPT !.told = TRUE]
<1>1. /\ UNCHANGED <<gates, lock, call, reserved, auto, up, lost>>
      /\ worker \in UpdateWorkers /\ worker.copy \in RequestFiles /\ 0 \in 0 .. MaxIds
      /\ UNCHANGED Update!Living(Update!Gates)
  BY UpkeepAssumption DEF Update!Tell, Update!TellFails, Update!WorkerDies, UpdateInv, UpdateTypes,
     UpdateWorkers, Update!Living, Update!GateLives
<1>2. ASSUME worker.step = "notify"
      PROVE  /\ f \in RequestFiles /\ f.state = "whole" /\ f.id = worker.copy.id /\ f.outcome /\ f.told
             /\ NoneKept
  BY <1>1, <1>2 DEF RequestFiles, UpdateInv, WorkerAt, AtWork
<1>3. CASE worker' = Update!Off
  <2>1. worker' \in UpdateWorkers /\ worker'.step = "off"
    BY <1>3, OffIs
  <2>2. \A g \in Update!Gates : UpdateKept(g)' => UpdateKept(g)
    BY <1>1, <2>1 DEF UpdateKept
  <2>3. /\ file' \in RequestFiles /\ seen' \in RequestFiles /\ Agrees(file)' /\ Agrees(seen)'
        /\ failures' \in 0 .. MaxFailures /\ CallsAgree' /\ SeenIsOlder'
        /\ UpdaterIsNamed'
    <3>1. CASE worker.step = "notify" /\ Update!Writes(f)
      <4> HIDE DEF f
      <4>1. /\ file' = f /\ file' \in RequestFiles /\ seen' \in RequestFiles /\ Agrees(file)' /\ Agrees(seen)'
            /\ failures' \in 0 .. MaxFailures /\ CallsAgree' /\ SeenIsOlder'
        BY <1>1, <1>2, <3>1, CopyWrites
      <4> QED BY <1>2, <2>2, <3>1, <4>1 DEF UpdaterIsNamed, NoneKept
    <3>2. CASE UNCHANGED <<file, seen>> /\ failures' \in 0 .. MaxFailures
      <4>1. CallsAgree' /\ SeenIsOlder' /\ Agrees(file)' /\ Agrees(seen)'
        BY <1>1, <3>2, AsideIs DEF UpdateInv, SeenIsOlder, Agrees
      <4> QED BY <2>2, <3>2, <4>1 DEF UpdateInv, UpdateTypes, UpdaterIsNamed
    <3>3. CASE Update!TellFails
      <4>1. failures' \in 0 .. MaxFailures /\ seen' = seen /\ worker.step = "notify"
        BY <3>3, UpkeepAssumption DEF Update!TellFails, Update!Fault, UpdateInv, UpdateTypes
      <4>2. CASE file' = file
        BY <3>2, <4>1, <4>2
      <4>3. CASE file' # file
        <5>1. file' = f
          BY <3>3, <4>3 DEF Update!TellFails
        <5> HIDE DEF f
        <5>2. worker.id = f.id /\ worker.id \in Update!Ids
          BY <1>2, <4>1 DEF UpdateInv, WorkerAt, AtWork, Update!Session
        <5>3. Agrees(file)' /\ Agrees(seen)' /\ SeenIsOlder' /\ CallsAgree'
          <6>1. CallsAgree' /\ (Update!At("look")' <=> Update!At("look"))
            BY <1>1, <4>1, AsideIs
          <6> QED BY <1>2, <4>1, <5>1, <5>2, <6>1 DEF UpdateInv, SeenIsOlder, Agrees
        <5> QED BY <1>2, <2>2, <4>1, <5>1, <5>3 DEF UpdateInv, UpdateTypes, UpdaterIsNamed, NoneKept
      <4> QED BY <4>2, <4>3
    <3>4. CASE Update!WorkerDies
      BY <3>2, <3>4, UpkeepAssumption DEF Update!WorkerDies, Update!Fault, UpdateInv, UpdateTypes
    <3> QED BY <3>1, <3>3, <3>4 DEF Update!Tell
  <2>4. UpdateTypes'
    BY <1>1, <2>1, <2>3 DEF UpdateInv, UpdateTypes
  <2> QED BY <2>1, <2>3, <2>4 DEF UpdateInv, WorkerAt, AtWork, WorksForFile, WithdrawnIsGone, Update!Session
<1>4. CASE worker' # Update!Off
  <2>1. /\ worker.step = "notify" /\ failures' \in 0 .. MaxFailures /\ UNCHANGED <<file, seen>>
        /\ worker' = [worker EXCEPT !.tries = worker.tries + 1]
    BY <1>4, UpkeepAssumption DEF Update!Tell, Update!TellFails, Update!WorkerDies, Update!Fault,
       UpdateInv, UpdateTypes
  <2>2. worker.tries + 1 \in Nat
    BY <1>1 DEF UpdateWorkers
  <2>3. /\ worker' \in UpdateWorkers /\ worker'.step = "notify" /\ worker'.copy = worker.copy
        /\ worker'.id = worker.id /\ worker'.withdrawn = worker.withdrawn
    BY <1>1, <2>1, <2>2, Zenon DEF UpdateWorkers
  <2>4. CallsAgree' /\ SeenIsOlder' /\ Agrees(file)' /\ Agrees(seen)'
    BY <1>1, <2>1, AsideIs DEF UpdateInv, SeenIsOlder, Agrees
  <2>5. NoneKept' /\ UpdateTypes'
    BY <1>1, <1>2, <2>1, <2>3 DEF NoneKept, UpdateKept, UpdateInv, UpdateTypes
  <2> QED BY <2>1, <2>3, <2>4, <2>5 DEF UpdateInv, UpdaterIsNamed, NoneKept, WorkerAt, AtWork,
             WorksForFile, WithdrawnIsGone, Update!Session
<1> QED BY <1>3, <1>4

\* Every step of update-request.ts keeps the invariant, deaths, failed posts, stale reads
\* and updaters that were given up included.
LEMMA UpStep == UpdateInv /\ (Update!Next \/ UNCHANGED updateVars) => UpdateInv'
<1> SUFFICES ASSUME UpdateInv, Update!Next \/ UNCHANGED updateVars
             PROVE  UpdateInv'
  OBVIOUS
<1>1. CASE UNCHANGED updateVars
  <2>1. CallsAgree' /\ (Update!At("look")' <=> Update!At("look"))
    BY <1>1, AsideIs DEF updateVars
  <2> QED BY <1>1, <2>1, StillKeeps DEF updateVars, UpdateInv, UpdateTypes
<1>2. CASE Update!GatewayStep
  <2>1. ASSUME NEW m \in Update!Msgs,
               Update!Deliver(m) \/ Update!Reread(m) \/ Update!Act(m) \/ Update!Accepted(m)
                 \/ Update!DuplicateTold(m)
        PROVE  UpdateInv'
    BY <2>1, LookKeeps, ActKeeps, AcceptedKeeps, DuplicateToldKeeps DEF Update!Deliver, Update!Reread
  <2> QED BY <1>2, <2>1, ResumeKeeps, AutoKeeps, OtherUpdateSteps DEF Update!GatewayStep
<1>3. CASE Update!WorkerStep
  BY <1>3, BeginKeeps, RegisterKeeps, StartUpdaterKeeps, WorkerEndsKeeps, RecordKeeps, TellKeeps,
     OtherUpdateSteps, GateEndsKeeps DEF Update!WorkerStep
<1>4. CASE Update!AutoEnqueue
  BY <1>4, LookKeeps DEF Update!AutoEnqueue, Update!Msgs
<1>5. CASE \E m \in Update!Msgs : Update!PostFails(m)
  BY <1>5, PostFailsKeeps
<1>6. CASE \/ Update!AutoCheck \/ Update!HandshakeFails \/ Update!TimesOut \/ Update!TellFails
           \/ Update!WorkerDies \/ Update!GatewayDies \/ Update!ManualUpdate \/ Update!Ages
           \/ \E g \in Update!Gates : Update!TakeLock(g)
  BY <1>6, AutoKeeps, WorkerEndsKeeps, TellKeeps, GatewayDiesKeeps, AgesKeeps, OtherUpdateSteps
<1> QED BY <1>1, <1>2, <1>3, <1>4, <1>5, <1>6 DEF Update!Next

\* What a step may do to a request that is not settled.
GivesUpRightly ==
  file.state = "whole" /\ ~Update!Settled(file) /\ file'.id # file.id
    => \/ \E m \in People : call[m].step = "accepting" /\ call[m].id = file.id
                              /\ call'[m] = Update!Idle
       \/ worker.withdrawn /\ worker.step \in {"record", "notify"} /\ file'.id = worker.id
       \/ /\ ~(Update!Session /\ worker.id = file.id)
          /\ \/ file.old
             \/ file.outcome /\ \E m \in People : call[m].step = "look"
             \/ file.outcome /\ Update!At("look") /\ ~(seen.id = file.id /\ seen.outcome)

\* A look gives up an unsettled request only when it is old, when a person asks anew, or
\* when its outcome came after the look.
LEMMA ActIsRight ==
  ASSUME UpdateInv, NEW m \in Update!Msgs, Update!Act(m)
  PROVE  GivesUpRightly
<1>1. call[m].step = "look" /\ Changed(m) /\ Update!At("look")
  BY ConsiderDoes DEF Update!Act, Update!At
<1> SUFFICES ASSUME file.state = "whole", ~file.told, file'.id # file.id
             PROVE  /\ ~Update!Session
                    /\ \/ file.old
                       \/ file.outcome /\ m \in People
                       \/ file.outcome /\ ~(seen.id = file.id /\ seen.outcome)
  BY <1>1 DEF GivesUpRightly, Update!Settled
<1>2. CASE Replaceable(m)
  BY <1>2 DEF Replaceable
<1>3. CASE ~Update!Session /\ file'.id = seen.id /\ seen.state = "whole"
  BY <1>1, <1>3 DEF UpdateInv, SeenIsOlder
<1> QED BY <1>1, <1>2, <1>3 DEF Changed

\* A caller gives up its own request only.
LEMMA WithdrawIsRight ==
  ASSUME UpdateInv, NEW m \in Update!Msgs, Update!Accepted(m) \/ Update!PostFails(m)
  PROVE  GivesUpRightly
<1>1. CASE file'.id = file.id
  BY <1>1 DEF GivesUpRightly
<1>2. CASE file'.id # file.id
  <2>1. call[m].step = "accepting" /\ file.id = call[m].id
    BY <1>2 DEF Update!Accepted, Update!PostFails, Update!Withdraw
  <2>2. m \in People
    BY <2>1 DEF UpdateInv, CallsAgree
  <2>3. call'[m] = Update!Idle
    BY DEF Update!Accepted, Update!PostFails, UpdateInv, UpdateTypes
  <2> QED BY <2>1, <2>2, <2>3 DEF GivesUpRightly
<1> QED BY <1>1, <1>2

\* A worker writes its own request back, and another's away only when its own was withdrawn.
LEMMA WorkerIsRight ==
  ASSUME UpdateInv, Update!WorkerStep \/ Update!TellFails
  PROVE  GivesUpRightly
<1>1. CASE file'.id = file.id
  BY <1>1 DEF GivesUpRightly
<1>2. CASE Update!Record \/ Update!Tell \/ Update!TellFails
  <2>1. worker.step \in {"record", "notify"} /\ worker.copy.id = worker.id /\ worker.copy \in RequestFiles
    BY <1>2 DEF Update!Record, Update!Tell, Update!TellFails, UpdateInv, WorkerAt, AtWork, UpdateTypes,
       UpdateWorkers
  <2>2. file' = file \/ file' = worker.copy \/ file' = [worker.copy EXCEPT !.told = TRUE]
    BY <1>2, Zenon DEF Update!Record, Update!Tell, Update!TellFails, Update!Writes
  <2>3. file' = file \/ file'.id = worker.id
    BY <2>1, <2>2 DEF RequestFiles
  <2>4. ~worker.withdrawn => file.id = worker.id
    BY <2>1 DEF UpdateInv, WorksForFile, AtWork
  <2>5. worker.withdrawn \in BOOLEAN
    BY DEF UpdateInv, UpdateTypes, UpdateWorkers
  <2> QED BY <2>1, <2>3, <2>4, <2>5 DEF GivesUpRightly
<1>3. CASE Update!Register \/ Update!GateExit
  <2>1. \/ file' = file
        \/ \E g \in {0, worker.gate} : file' = [file EXCEPT !.gate = g]
    BY <1>3, Zenon DEF Update!Register, Update!Registered, Update!GateExit, Update!Writes
  <2>2. file'.id = file.id
    BY <2>1 DEF UpdateInv, UpdateTypes, RequestFiles
  <2> QED BY <1>1, <2>2
<1> QED BY <1>1, <1>2, <1>3 DEF Update!WorkerStep, Update!Begin, Update!StartUpdater,
           Update!ManualEnds, Update!GateGivesUp, Update!UpdaterEnds

\* So it is for every step.
LEMMA RequestIsKept ==
  ASSUME UpdateInv, Update!Next \/ UNCHANGED updateVars
  PROVE  GivesUpRightly
<1>1. CASE UNCHANGED file
  BY <1>1 DEF GivesUpRightly
<1>2. CASE Update!Resume
  BY <1>2, StruckIs DEF Update!Resume, GivesUpRightly, UpdateInv, UpdateTypes
<1>3. CASE Update!GatewayStep
  BY <1>1, <1>2, <1>3, ActIsRight, WithdrawIsRight DEF Update!GatewayStep, Update!AutoEnds,
     Update!GatewayStarts, Update!Deliver, Update!Reread, Update!DuplicateTold
<1>4. CASE Update!GatewayDies
  <2>1. CASE file' # file
    <3>1. PICK m \in Update!Msgs : call[m].step = "look" /\ Replaceable(m)
      BY <1>4, <2>1, ReservesIs DEF Update!GatewayDies
    <3>2. Update!At("look")
      BY <3>1 DEF Update!At
    <3> QED BY <3>1, <3>2 DEF Replaceable, GivesUpRightly, Update!Settled
  <2> QED BY <1>1, <2>1
<1>5. CASE Update!Ages
  <2>1. file'.id = file.id
    BY <1>5 DEF Update!Ages, UpdateInv, UpdateTypes, RequestFiles
  <2> QED BY <2>1 DEF GivesUpRightly
<1>6. CASE \E m \in Update!Msgs : Update!PostFails(m)
  BY <1>6, WithdrawIsRight
<1>7. CASE \/ Update!AutoCheck \/ Update!AutoEnqueue \/ Update!HandshakeFails \/ Update!TimesOut
           \/ Update!WorkerDies \/ Update!ManualUpdate
           \/ (\E g \in Update!Gates : Update!TakeLock(g)) \/ UNCHANGED updateVars
  BY <1>1, <1>7 DEF Update!AutoCheck, Update!AutoEnqueue, Update!HandshakeFails, Update!TimesOut,
     Update!WorkerDies, Update!ManualUpdate, Update!TakeLock, updateVars
<1> QED BY <1>3, <1>4, <1>5, <1>6, <1>7, WorkerIsRight DEF Update!Next

-----------------------------------------------------------------------------
(* The files of a thread. *)

\* The files of a thread, and what the drain loop and the jobs have in hand.
FileTypes ==
  /\ mail \in [Attached!Messages -> {"absent", "pending", "processing", "gone"}]
  /\ tries \in [Attached!Messages -> 0 .. MaxTries]
  /\ bound \in [Attached!Messages -> 0 .. MaxMessages]
  /\ manifest \in SUBSET Attachments
  /\ disk \in [Attachments -> {"none", "whole", "bad"}]
  /\ catalog \in SUBSET Attachments /\ pending \in SUBSET Attachments /\ retired \in SUBSET Attachments
  /\ recovered \in [Attached!Messages -> SUBSET Attachments]
  /\ task \in [Attached!Messages -> {"none", "queued", "running", "done", "failed"}]
  /\ files \in [Attached!Messages -> SUBSET Attachments]
  /\ notes \in [Attached!Messages -> SUBSET Attachments]
  /\ into \in [Attached!Messages -> 0 .. MaxMessages]
  /\ given \in [Attached!Messages -> SUBSET Attachments]
  /\ refused \in SUBSET Attached!Messages /\ old \in SUBSET Attached!Messages
  /\ drain \in [at : {"idle", "own", "record", "old", "kept", "hand", "complete"},
                m : 0 .. MaxMessages, todo : SUBSET Attachments]
  /\ helped \in [Attachments -> 0 .. MaxMessages]
  /\ troubles \in 0 .. MaxTroubles

\* All that came with a message is on disk as it was sent.
WholeFiles(S) == \A f \in S : disk[f] = "whole"

\* What the drain loop has in hand at each of its steps.
DrainAt ==
  /\ drain.at = "idle" => drain = Attached!Idle
  /\ drain.at # "idle" => drain.m \in Attached!Messages /\ mail[drain.m] = "processing"
  /\ drain.at \in {"own", "record"} => drain.todo \subseteq Attached!FilesOf(drain.m)
  /\ drain.at \in {"record", "kept"} => drain.todo # {}
  /\ drain.at \in {"old", "kept"} => drain.todo \subseteq pending
  /\ drain.at = "kept" => disk[Attached!Next1] = "whole" /\ MessageOf[Attached!Next1] \notin old
  /\ drain.at = "own" => WholeFiles(Attached!FilesOf(drain.m) \ drain.todo)
  /\ drain.at = "record" => WholeFiles(Attached!FilesOf(drain.m) \ (drain.todo \ {Attached!Next1}))
  /\ drain.at \in {"old", "kept", "hand", "complete"} => WholeFiles(Attached!FilesOf(drain.m))
  /\ drain.at = "complete" => Attached!Durable(drain.m)

\* The messages of a thread are handed over in their order, to one open job at a time.
HandedInOrder ==
  /\ \A m \in Attached!Messages : mail[m] = "processing" \/ Attached!Durable(m) =>
       \A k \in Attached!Messages : k < m => mail[k] = "gone"
  /\ \A j, k \in Attached!Open : j = k

\* What is old or owed belongs to messages that are done with.
OldIsGone ==
  /\ \A m \in old : mail[m] = "gone"
  /\ \A f \in pending : mail[MessageOf[f]] = "gone"

\* The files of a message that was handed over are accounted for, and safe while its row stays.
HandedFiles ==
  \A m \in Attached!Messages : Attached!Durable(m) =>
    /\ Attached!FilesOf(m) \subseteq Attached!Known \cup retired
    /\ mail[m] # "gone" => WholeFiles(Attached!FilesOf(m))

\* What a row recovered before it was handed over is in the row.
HelpIsKept ==
  \A f \in Attachments : \A m \in Attached!Messages :
    helped[f] = m /\ ~Attached!Durable(m) /\ mail[m] # "gone" => f \in recovered[m]

\* An open job may read what is catalogued, and nothing else.
OpenJobsRead == \A j \in Attached!Open : files[j] \subseteq catalog

\* The inductive invariant of the files: what the safety says, and why it stays so.
FilesInv ==
  /\ FileTypes /\ DrainAt /\ HandedInOrder /\ OldIsGone /\ HandedFiles /\ HelpIsKept /\ OpenJobsRead
  /\ Attached!NothingForgotten /\ Attached!RepliesAreComplete /\ Attached!JobsAreInformed
  /\ Attached!BytesAreKept

\* A set of numbers has a least one.
LEMMA LeastIs == ASSUME NEW S \in SUBSET Nat, S # {} PROVE \E u \in S : \A y \in S : u =< y
<1> DEFINE Less == {ss \in Nat \X Nat : ss[1] < ss[2]}
<1>1. IsWellFoundedOn(Less, Nat)
  BY NatLessThanWellFounded DEF OpToRel
<1>2. PICK u \in S : \A y \in S : ~(<<y, u>> \in Less)
  <2> HIDE DEF Less
  <2> QED BY <1>1, WFMin
<1>3. ASSUME NEW y \in S PROVE u =< y
  <2>1. <<y, u>> \in Nat \X Nat /\ <<y, u>>[1] = y /\ <<y, u>>[2] = u
    OBVIOUS
  <2>2. ~(<<y, u>>[1] < <<y, u>>[2])
    BY <1>2, <2>1
  <2> QED BY <2>1, <2>2
<1> QED BY <1>3

\* The file the drain loop takes next is one of those it has to do.
LEMMA FirstIs ==
  ASSUME FileTypes, drain.todo # {}
  PROVE  Attached!Next1 \in drain.todo
<1> DEFINE S == {MessageOf[f] : f \in drain.todo}
<1>1. drain.todo \subseteq Attachments
  BY DEF FileTypes
<1>2. S \in SUBSET Nat /\ S # {}
  BY <1>1, UpkeepAssumption
<1>3. PICK u \in S : \A y \in S : u =< y
  BY <1>2, LeastIs
<1>4. \E f \in drain.todo : \A g \in drain.todo : MessageOf[f] =< MessageOf[g]
  BY <1>3
<1> QED BY <1>4 DEF Attached!Next1

\* The Cardinality of the instance is that of FiniteSets.
LEMMA FilesCardinality == \A S : Attached!Cardinality(S) = Cardinality(S)
  BY DEF Attached!Cardinality, Cardinality

\* At first no message has come, so the invariant holds.
LEMMA FilesInit == Attached!Init => FilesInv
<1> SUFFICES ASSUME Attached!Init PROVE FilesInv
  OBVIOUS
<1>1. FileTypes
  BY UpkeepAssumption DEF Attached!Init, FileTypes, Attached!Idle, Attached!Messages
<1>2. Attached!Spoiled \cup retired = {}
  BY DEF Attached!Init, Attached!Spoiled
<1>3. Attached!BytesAreKept
  <2>1. Cardinality(Attached!Spoiled \cup retired) = 0
    BY <1>2, FS_EmptySet, Zenon
  <2>2. troubles = 0
    BY DEF Attached!Init
  <2>3. Attached!Cardinality(Attached!Spoiled \cup retired) = 0
    BY <2>1, FilesCardinality, Zenon
  <2> QED BY <2>2, <2>3 DEF Attached!BytesAreKept
<1>4. \A m \in Attached!Messages : m # 0
  BY UpkeepAssumption DEF Attached!Messages
<1>5. \A m \in Attached!Messages : /\ ~Attached!Durable(m) /\ m \notin Attached!Open /\ mail[m] = "absent"
                                   /\ into[m] = 0
  BY DEF Attached!Init, Attached!Durable, Attached!Open
<1>6. DrainAt /\ OldIsGone
  BY DEF Attached!Init, Attached!Idle, DrainAt, OldIsGone
<1>9. HandedInOrder /\ HandedFiles /\ OpenJobsRead
  <2>1. Attached!Open = {}
    BY <1>5 DEF Attached!Open
  <2> QED BY <1>5, <2>1 DEF HandedInOrder, HandedFiles, OpenJobsRead
<1>7. HelpIsKept
  BY <1>4, UpkeepAssumption DEF Attached!Init, HelpIsKept
<1>8. Attached!NothingForgotten /\ Attached!RepliesAreComplete /\ Attached!JobsAreInformed
  BY <1>5 DEF Attached!Init, Attached!NothingForgotten, Attached!RepliesAreComplete,
     Attached!JobsAreInformed,
     Attached!Open
<1> QED BY <1>1, <1>3, <1>6, <1>7, <1>8, <1>9 DEF FilesInv

\* The safety of the files is part of the invariant.
LEMMA FilesAreSafe == FilesInv => Attached!Safety
  BY DEF FilesInv, FileTypes, Attached!TypeOK, Attached!Safety

\* What is lost stays counted.
LEMMA BytesStay ==
  ASSUME FilesInv, (Attached!Spoiled \cup retired)' \subseteq Attached!Spoiled \cup retired,
         troubles' \in Nat, troubles' >= troubles
  PROVE  Attached!BytesAreKept'
<1> DEFINE S == Attached!Spoiled \cup retired
           T == (Attached!Spoiled \cup retired)'
<1>1. IsFiniteSet(S)
  <2>1. S \subseteq Attachments
    BY DEF FilesInv, FileTypes, Attached!Spoiled
  <2> QED BY <2>1, UpkeepAssumption, FS_Subset
<1>2. Cardinality(T) =< Cardinality(S) /\ Cardinality(S) \in Nat /\ Cardinality(T) \in Nat
  BY <1>1, FS_Subset, FS_CardinalityType
<1>3. Cardinality(S) =< troubles /\ troubles \in Nat
  BY FilesCardinality, UpkeepAssumption DEF FilesInv, FileTypes, Attached!BytesAreKept
<1>4. Cardinality(T) =< troubles'
  <2> HIDE DEF S, T
  <2> QED BY <1>2, <1>3
<1> QED BY <1>4, FilesCardinality DEF Attached!BytesAreKept

ThreadState == <<mail, catalog, pending, retired, helped, recovered, refused, tries, bound>>
JobState == <<task, files, notes, into, given>>

\* Steps of the drain loop that neither hand the message over nor keep anything of it.
LEMMA InnerStep ==
  ASSUME FilesInv, UNCHANGED ThreadState, UNCHANGED JobState, FileTypes', DrainAt', old' \subseteq old,
         troubles' = troubles, \A f \in Attachments : disk[f] = "whole" => disk'[f] = "whole"
  PROVE  FilesInv'
<1>1. Attached!BytesAreKept'
  <2>1. (Attached!Spoiled \cup retired)' \subseteq Attached!Spoiled \cup retired
    BY DEF Attached!Spoiled, ThreadState, FilesInv, FileTypes
  <2> QED BY <2>1, BytesStay, UpkeepAssumption DEF FilesInv, FileTypes
<1>2. HandedInOrder' /\ HelpIsKept' /\ OpenJobsRead' /\ OldIsGone'
  BY DEF FilesInv, HandedInOrder, OldIsGone, HelpIsKept, OpenJobsRead,
     Attached!Open, Attached!Durable, ThreadState, JobState
<1>3. HandedFiles'
  BY DEF FilesInv, HandedFiles, Attached!Known, Attached!Durable, ThreadState, JobState,
     WholeFiles,
         Attached!FilesOf
<1>4. Attached!NothingForgotten' /\ Attached!RepliesAreComplete' /\ Attached!JobsAreInformed'
  BY DEF FilesInv, Attached!NothingForgotten, Attached!RepliesAreComplete,
     Attached!JobsAreInformed,
     Attached!Open, Attached!Known, ThreadState, JobState
<1> QED BY <1>1, <1>2, <1>3, <1>4 DEF FilesInv

\* Every drain record is one of a step, a message and a set of files.
LEMMA DrainIs ==
  ASSUME FileTypes
  PROVE  /\ drain.at \in {"idle", "own", "record", "old", "kept", "hand", "complete"}
         /\ drain.m \in 0 .. MaxMessages /\ drain.todo \subseteq Attachments
  BY DEF FileTypes

DrainSteps == {"idle", "own", "record", "old", "kept", "hand", "complete"}

\* A drain record with another step or with other files to see.
LEMMA DrainNext ==
  ASSUME FileTypes, NEW a \in DrainSteps, NEW S \in SUBSET Attachments
  PROVE  /\ [drain EXCEPT !.at = a, !.todo = S] \in [at : DrainSteps, m : 0 .. MaxMessages, todo : SUBSET Attachments]
         /\ [drain EXCEPT !.at = a, !.todo = S].at = a
         /\ [drain EXCEPT !.at = a, !.todo = S].m = drain.m
         /\ [drain EXCEPT !.at = a, !.todo = S].todo = S
         /\ [drain EXCEPT !.at = a] = [drain EXCEPT !.at = a, !.todo = drain.todo]
         /\ [drain EXCEPT !.todo = S] = [drain EXCEPT !.at = drain.at, !.todo = S]
<1>1. drain \in [at : DrainSteps, m : 0 .. MaxMessages, todo : SUBSET Attachments]
  BY DEF FileTypes, DrainSteps
<1> QED BY <1>1, Zenon

\* A file that was cached or downloaded goes into the manifest of its row.
LEMMA SeenKeeps ==
  ASSUME FilesInv, Attached!UseCached \/ Attached!Record
  PROVE  FilesInv'
<1> DEFINE f == Attached!Next1
           S == drain.todo \ {f}
<1>1. /\ drain.at \in {"own", "record"} /\ drain.todo # {}
      /\ drain.at = "own" => disk[f] = "whole"
      /\ manifest' = manifest \cup {f}
      /\ UNCHANGED <<mail, tries, bound, recovered, refused, old, disk, Attached!threads, Attached!jobs, troubles>>
  BY DEF Attached!UseCached, Attached!Record, FilesInv, DrainAt
<1>2. drain' = [drain EXCEPT !.at = "own", !.todo = S]
  <2>1. CASE Attached!UseCached
    <3>1. drain' = [drain EXCEPT !.todo = S] /\ drain.at = "own"
      BY <2>1 DEF Attached!UseCached
    <3>2. FileTypes /\ "own" \in DrainSteps /\ S \in SUBSET Attachments
      BY DrainIs DEF FilesInv, DrainSteps
    <3> HIDE DEF S
    <3> QED BY <3>1, <3>2, DrainNext
  <2>2. CASE Attached!Record
    BY <2>2 DEF Attached!Record
  <2> QED BY <2>1, <2>2
<1>3. f \in drain.todo /\ f \in Attachments /\ drain.todo \subseteq Attachments
  BY <1>1, FirstIs, DrainIs DEF FilesInv
<1> HIDE DEF f
<1>4. /\ drain' \in [at : DrainSteps, m : 0 .. MaxMessages, todo : SUBSET Attachments]
      /\ drain'.at = "own" /\ drain'.m = drain.m /\ drain'.todo = S
  BY <1>2, <1>3, DrainNext DEF FilesInv, DrainSteps
<1>5. FileTypes'
  BY <1>1, <1>3, <1>4 DEF FilesInv, FileTypes, DrainSteps, Attached!threads, Attached!jobs
<1>6. DrainAt'
  <2>1. \A g \in Attached!FilesOf(drain.m) \ S : disk[g] = "whole"
    BY <1>1, <1>3 DEF FilesInv, DrainAt, WholeFiles, f
  <2> HIDE DEF S
  <2>2. drain.at # "idle" /\ drain.todo \subseteq Attached!FilesOf(drain.m)
    BY <1>1 DEF FilesInv, DrainAt
  <2>3. S \subseteq Attached!FilesOf(drain.m)
    BY <2>2 DEF S
  <2> QED BY <1>1, <1>4, <2>1, <2>2, <2>3 DEF FilesInv, DrainAt, Attached!FilesOf, WholeFiles
<1> QED BY <1>1, <1>5, <1>6, InnerStep DEF Attached!threads, Attached!jobs, ThreadState, JobState

\* A download makes a file whole and spoils no other.
LEMMA DownloadKeeps ==
  ASSUME FilesInv, Attached!Download
  PROVE  FilesInv'
<1> DEFINE f == Attached!Next1
<1>1. /\ drain.at = "own" /\ drain.todo # {} /\ disk' = [disk EXCEPT ![f] = "whole"]
      /\ UNCHANGED <<Attached!rows, Attached!threads, Attached!jobs, troubles>>
      /\ drain' = [drain EXCEPT !.at = "record"]
  BY DEF Attached!Download
<1>3. f \in drain.todo /\ f \in Attachments /\ drain.todo \subseteq Attachments
  BY <1>1, FirstIs, DrainIs DEF FilesInv
<1>4. /\ drain' \in [at : DrainSteps, m : 0 .. MaxMessages, todo : SUBSET Attachments]
      /\ drain'.at = "record" /\ drain'.m = drain.m /\ drain'.todo = drain.todo
  BY <1>1, <1>3, DrainNext DEF FilesInv, DrainSteps
<1>5. f' = f
  BY <1>4 DEF Attached!Next1
<1>6. disk' \in [Attachments -> {"none", "whole", "bad"}] /\ disk'[f] = "whole"
      /\ \A g \in Attachments : disk[g] = "whole" => disk'[g] = "whole"
  <2> HIDE DEF f
  <2> QED BY <1>1, <1>3 DEF FilesInv, FileTypes
<1>7. FileTypes'
  BY <1>1, <1>4, <1>6 DEF FilesInv, FileTypes, DrainSteps, Attached!rows, Attached!threads,
     Attached!jobs
<1>8. DrainAt'
  <2>1. \A g \in Attached!FilesOf(drain.m) \ (drain.todo \ {f}) : disk'[g] = "whole"
    <3> HIDE DEF f
    <3> QED BY <1>1, <1>6 DEF FilesInv, DrainAt, WholeFiles, Attached!FilesOf
  <2>2. WholeFiles(Attached!FilesOf(drain.m) \ (drain.todo \ {Attached!Next1}))'
    BY <2>1, <1>4, <1>5 DEF WholeFiles, Attached!FilesOf
  <2> QED BY <1>1, <1>4, <2>2 DEF FilesInv, DrainAt, Attached!FilesOf, Attached!rows
<1> QED BY <1>1, <1>6, <1>7, <1>8, InnerStep
        DEF Attached!rows, Attached!threads, Attached!jobs, ThreadState, JobState

\* The drain loop goes on to the files of earlier messages, and past them.
LEMMA OnwardKeeps ==
  ASSUME FilesInv, Attached!OwnDone \/ Attached!Miss \/ Attached!OldDone \/ Attached!Handed
  PROVE  FilesInv'
<1>1. UNCHANGED <<Attached!rows, disk, Attached!threads, Attached!jobs, troubles>> /\ drain.at # "idle"
  BY DEF Attached!OwnDone, Attached!Miss, Attached!OldDone, Attached!Handed
<1>2. \E a \in {"old", "hand", "complete"}, S \in SUBSET Attachments :
        /\ drain' = [drain EXCEPT !.at = a, !.todo = S]
        /\ a = "old" => S \subseteq pending
        /\ a = "complete" => Attached!Durable(drain.m)
        /\ drain.at \in {"old", "hand"} \/ (drain.at = "own" /\ drain.todo = {})
  <2>1. FileTypes /\ drain.todo \in SUBSET Attachments /\ pending \in SUBSET Attachments
    BY DEF FilesInv, FileTypes
  <2>2. CASE Attached!OwnDone
    <3> DEFINE S == {f \in pending : MessageOf[f] < drain.m}
    <3>1. S \in SUBSET Attachments /\ S \subseteq pending
      BY <2>1
    <3>2. drain' = [drain EXCEPT !.at = "old", !.todo = S] /\ drain.at = "own" /\ drain.todo = {}
      BY <2>2 DEF Attached!OwnDone
    <3> HIDE DEF S
    <3> QED BY <3>1, <3>2
  <2>3. CASE Attached!Miss
    <3> DEFINE S == drain.todo \ {Attached!Next1}
    <3>1. S \in SUBSET Attachments /\ drain.at = "old"
      BY <2>1, <2>3 DEF Attached!Miss
    <3>2. S \subseteq pending
      BY <3>1 DEF FilesInv, DrainAt
    <3>3. drain' = [drain EXCEPT !.todo = S]
      BY <2>3 DEF Attached!Miss
    <3> HIDE DEF S
    <3>4. drain' = [drain EXCEPT !.at = "old", !.todo = S]
      <4>1. "old" \in DrainSteps
        BY DEF DrainSteps
      <4> QED BY <2>1, <3>1, <3>3, <4>1, DrainNext
    <3> QED BY <3>1, <3>2, <3>4
  <2>4. CASE Attached!OldDone
    <3>1. drain' = [drain EXCEPT !.at = "hand"] /\ drain.at = "old" /\ "hand" \in DrainSteps
      BY <2>4 DEF Attached!OldDone, DrainSteps
    <3>2. drain' = [drain EXCEPT !.at = "hand", !.todo = drain.todo]
      BY <2>1, <3>1, DrainNext
    <3> QED BY <2>1, <3>1, <3>2
  <2>5. CASE Attached!Handed
    <3>1. drain' = [drain EXCEPT !.at = "complete"] /\ drain.at = "hand" /\ "complete" \in DrainSteps
          /\ Attached!Durable(drain.m)
      BY <2>5 DEF Attached!Handed, DrainSteps
    <3>2. drain' = [drain EXCEPT !.at = "complete", !.todo = drain.todo]
      BY <2>1, <3>1, DrainNext
    <3> QED BY <2>1, <3>1, <3>2
  <2> QED BY <2>2, <2>3, <2>4, <2>5
<1>3. PICK a \in {"old", "hand", "complete"}, S \in SUBSET Attachments :
        /\ drain' = [drain EXCEPT !.at = a, !.todo = S]
        /\ a = "old" => S \subseteq pending
        /\ a = "complete" => Attached!Durable(drain.m)
        /\ drain.at \in {"old", "hand"} \/ (drain.at = "own" /\ drain.todo = {})
  BY <1>2
<1>4. /\ drain' \in [at : DrainSteps, m : 0 .. MaxMessages, todo : SUBSET Attachments]
      /\ drain'.at = a /\ drain'.m = drain.m /\ drain'.todo = S
  BY <1>3, DrainNext DEF FilesInv, DrainSteps
<1>5. FileTypes'
  BY <1>1, <1>4 DEF FilesInv, FileTypes, DrainSteps, Attached!rows, Attached!threads,
     Attached!jobs
<1>6. \A f \in Attached!FilesOf(drain.m) : disk[f] = "whole"
  BY <1>3 DEF FilesInv, DrainAt, WholeFiles
<1>7. DrainAt'
  <2>1. drain'.m \in Attached!Messages /\ mail'[drain'.m] = "processing"
    BY <1>1, <1>4 DEF FilesInv, DrainAt, Attached!rows
  <2>2. a = "complete" => (into'[drain'.m] # 0 \/ task'[drain'.m] # "none")
    BY <1>1, <1>3, <1>4 DEF Attached!Durable, Attached!jobs
  <2> QED BY <1>1, <1>3, <1>4, <1>6, <2>1, <2>2
          DEF DrainAt, WholeFiles, Attached!FilesOf, Attached!Durable, Attached!threads
<1> QED BY <1>1, <1>5, <1>7, InnerStep
        DEF Attached!rows, Attached!threads, Attached!jobs, ThreadState, JobState

\* A file of an earlier message is downloaded again, and its message is no longer old.
LEMMA RecoverKeeps ==
  ASSUME FilesInv, Attached!Recover
  PROVE  FilesInv'
<1> DEFINE f == Attached!Next1
<1>1. /\ drain.at = "old" /\ drain.todo # {} /\ disk' = [disk EXCEPT ![f] = "whole"]
      /\ UNCHANGED <<mail, tries, bound, manifest, recovered, refused, Attached!threads, Attached!jobs, troubles>>
      /\ drain' = [drain EXCEPT !.at = "kept"] /\ old' = old \ {MessageOf[f]}
  BY DEF Attached!Recover
<1>3. f \in drain.todo /\ f \in Attachments /\ drain.todo \subseteq Attachments
  BY <1>1, FirstIs, DrainIs DEF FilesInv
<1>4. /\ drain' \in [at : DrainSteps, m : 0 .. MaxMessages, todo : SUBSET Attachments]
      /\ drain'.at = "kept" /\ drain'.m = drain.m /\ drain'.todo = drain.todo
  BY <1>1, <1>3, DrainNext DEF FilesInv, DrainSteps
<1>5. f' = f
  BY <1>4 DEF Attached!Next1
<1>6. disk' \in [Attachments -> {"none", "whole", "bad"}] /\ disk'[f] = "whole"
      /\ \A g \in Attachments : disk[g] = "whole" => disk'[g] = "whole"
  <2> HIDE DEF f
  <2> QED BY <1>1, <1>3 DEF FilesInv, FileTypes
<1>7. FileTypes'
  <2> HIDE DEF f
  <2> QED BY <1>1, <1>4, <1>6 DEF FilesInv, FileTypes, DrainSteps, Attached!threads, Attached!jobs
<1>8. DrainAt'
  <2>1. /\ \A g \in Attached!FilesOf(drain.m) : disk'[g] = "whole"
        /\ drain.todo \subseteq pending /\ drain.m \in Attached!Messages /\ mail[drain.m] = "processing"
    BY <1>1, <1>6 DEF FilesInv, DrainAt, WholeFiles, Attached!FilesOf
  <2>2. disk'[f'] = "whole" /\ MessageOf[f'] \notin old'
    BY <1>1, <1>5, <1>6
  <2> QED BY <1>1, <1>3, <1>4, <2>1, <2>2 DEF DrainAt, Attached!FilesOf, Attached!threads,
       WholeFiles
<1>9. old' \subseteq old
  BY <1>1
<1> QED BY <1>1, <1>6, <1>7, <1>8, <1>9, InnerStep
        DEF Attached!threads, Attached!jobs, ThreadState, JobState

\* The files of an earlier message that were got are kept by the row at work.
LEMMA KeepKeeps ==
  ASSUME FilesInv, Attached!Keep
  PROVE  FilesInv'
<1> DEFINE f == Attached!Next1
           m == drain.m
           S == drain.todo \ {f}
<1>1. /\ drain.at = "kept" /\ drain.todo # {} /\ disk[f] = "whole"
      /\ catalog' = catalog \cup {f} /\ pending' = pending \ {f}
      /\ recovered' = [recovered EXCEPT ![m] = @ \cup {f}]
      /\ helped' = [helped EXCEPT ![f] = IF Attached!Durable(m) THEN 0 ELSE m]
      /\ UNCHANGED <<mail, tries, bound, manifest, refused, old, disk, retired, Attached!jobs, troubles>>
      /\ drain' = [drain EXCEPT !.at = "old", !.todo = S]
      /\ m \in Attached!Messages /\ mail[m] = "processing" /\ drain.todo \subseteq pending
      /\ \A g \in Attached!FilesOf(m) : disk[g] = "whole"
  BY DEF Attached!Keep, FilesInv, DrainAt, WholeFiles
<1>2. /\ f \in drain.todo /\ f \in Attachments /\ drain.todo \subseteq Attachments /\ f \in pending
      /\ mail[MessageOf[f]] = "gone" /\ FileTypes
  BY <1>1, FirstIs, DrainIs DEF FilesInv, OldIsGone
<1> HIDE DEF f
<1>3. /\ drain' \in [at : DrainSteps, m : 0 .. MaxMessages, todo : SUBSET Attachments]
      /\ drain'.at = "old" /\ drain'.m = m /\ drain'.todo = S
  BY <1>1, <1>2, DrainNext DEF DrainSteps
<1>4. recovered' \in [Attached!Messages -> SUBSET Attachments]
      /\ f \in recovered'[m] /\ \A n \in Attached!Messages : recovered[n] \subseteq recovered'[n]
  BY <1>1, <1>2 DEF FileTypes
<1>5. /\ helped' \in [Attachments -> 0 .. MaxMessages]
      /\ \A g \in Attachments : g # f => helped'[g] = helped[g]
      /\ helped'[f] = IF Attached!Durable(m) THEN 0 ELSE m
  BY <1>1, <1>2, UpkeepAssumption DEF FileTypes, Attached!Messages
<1>6. FileTypes'
  BY <1>1, <1>2, <1>3, <1>4, <1>5 DEF FileTypes, DrainSteps, Attached!jobs
<1>7. DrainAt'
  <2>1. S \subseteq pending'
    BY <1>1
  <2> HIDE DEF S
  <2> QED BY <1>1, <1>3, <2>1 DEF DrainAt, WholeFiles, Attached!FilesOf
<1>8. HandedInOrder' /\ OldIsGone' /\ OpenJobsRead'
  BY <1>1 DEF FilesInv, HandedInOrder, OldIsGone, OpenJobsRead, Attached!Open, Attached!Durable,
     Attached!jobs
<1>9. Attached!Known' = Attached!Known
  BY <1>1, <1>2 DEF Attached!Known
<1>10. HandedFiles'
  BY <1>1, <1>9 DEF FilesInv, HandedFiles, Attached!Durable, Attached!jobs, WholeFiles,
     Attached!FilesOf
<1>11. HelpIsKept'
  <2> SUFFICES ASSUME NEW g \in Attachments, NEW n \in Attached!Messages, helped'[g] = n,
                      ~(into'[n] # 0 \/ task'[n] # "none"), mail'[n] # "gone"
               PROVE  g \in recovered'[n]
    BY DEF HelpIsKept, Attached!Durable
  <2>1. ~Attached!Durable(n) /\ mail[n] # "gone"
    BY <1>1 DEF Attached!Durable, Attached!jobs
  <2>2. CASE g = f
    <3>1. n # 0
      BY UpkeepAssumption DEF Attached!Messages
    <3> QED BY <1>4, <1>5, <2>2, <3>1
  <2>3. CASE g # f
    BY <1>4, <1>5, <2>1, <2>3 DEF FilesInv, HelpIsKept
  <2> QED BY <2>2, <2>3
<1>12. Attached!NothingForgotten' /\ Attached!JobsAreInformed'
  BY <1>1, <1>9 DEF FilesInv, Attached!NothingForgotten, Attached!JobsAreInformed,
     Attached!Open, Attached!jobs,
     Attached!FilesOf
<1>13. Attached!RepliesAreComplete'
  <2> SUFFICES ASSUME NEW n \in Attached!Messages, into'[n] # 0
               PROVE  Attached!FilesOf(n) \cup {g \in Attachments : helped'[g] = n} \subseteq given'[n]
    BY DEF Attached!RepliesAreComplete, Attached!FilesOf
  <2>1. Attached!FilesOf(n) \cup {g \in Attachments : helped[g] = n} \subseteq given[n]
    BY <1>1 DEF FilesInv, Attached!RepliesAreComplete, Attached!jobs
  <2>2. \A g \in Attachments : helped'[g] = n => helped[g] = n
    <3>1. n # 0 /\ (n = m => Attached!Durable(m))
      BY <1>1, UpkeepAssumption DEF Attached!Messages, Attached!Durable, Attached!jobs
    <3> QED BY <1>5, <3>1
  <2> QED BY <1>1, <2>1, <2>2 DEF Attached!jobs
<1>14. Attached!BytesAreKept'
  <2>1. (Attached!Spoiled \cup retired)' \subseteq Attached!Spoiled \cup retired
    BY <1>1 DEF Attached!Spoiled
  <2> QED BY <1>1, <2>1, BytesStay, UpkeepAssumption DEF FilesInv, FileTypes
<1> QED BY <1>6, <1>7, <1>8, <1>10, <1>11, <1>12, <1>13, <1>14 DEF FilesInv

\* A row is put back: the drain loop stops, and nothing of it is lost.
LEMMA PutBackKeeps ==
  ASSUME FilesInv, drain.at # "idle", drain' = Attached!Idle, mail' = [mail EXCEPT ![drain.m] = "pending"],
         tries' \in [Attached!Messages -> 0 .. MaxTries], troubles' \in 0 .. MaxTroubles, troubles' >= troubles,
         UNCHANGED <<bound, manifest, recovered, refused, old, disk, Attached!threads, Attached!jobs>>
  PROVE  FilesInv'
<1>1. drain.m \in Attached!Messages /\ mail[drain.m] = "processing" /\ FileTypes
  BY DEF FilesInv, DrainAt
<1>2. /\ mail' \in [Attached!Messages -> {"absent", "pending", "processing", "gone"}]
      /\ \A m \in Attached!Messages : mail'[m] = "gone" <=> mail[m] = "gone"
      /\ \A m \in Attached!Messages : mail'[m] = "processing" => mail[m] = "processing"
  BY <1>1 DEF FileTypes
<1>3. FileTypes'
  <2>1. drain' \in [at : DrainSteps, m : 0 .. MaxMessages, todo : SUBSET Attachments]
    BY UpkeepAssumption DEF Attached!Idle, DrainSteps
  <2> QED BY <1>2, <2>1 DEF FilesInv, FileTypes, Attached!threads, Attached!jobs, DrainSteps
<1>4. DrainAt'
  BY DEF DrainAt, Attached!Idle
<1>5. HandedInOrder' /\ OpenJobsRead'
  BY <1>2 DEF FilesInv, HandedInOrder, OpenJobsRead, Attached!Open, Attached!Durable,
     Attached!jobs, Attached!threads
<1>6. OldIsGone'
  <2>1. old \subseteq Attached!Messages /\ \A f \in pending : MessageOf[f] \in Attached!Messages
    BY UpkeepAssumption DEF FilesInv, FileTypes, Attached!Messages
  <2> QED BY <1>2, <2>1 DEF FilesInv, OldIsGone, Attached!threads
<1>7. HandedFiles' /\ HelpIsKept' /\ Attached!NothingForgotten'
  BY <1>2 DEF FilesInv, HandedFiles, HelpIsKept, Attached!NothingForgotten, Attached!Durable,
     Attached!Known,
     Attached!jobs, Attached!threads, WholeFiles, Attached!FilesOf
<1>8. Attached!RepliesAreComplete' /\ Attached!JobsAreInformed'
  BY DEF FilesInv, Attached!RepliesAreComplete, Attached!JobsAreInformed, Attached!Open,
     Attached!Known,
     Attached!jobs, Attached!threads, Attached!FilesOf
<1>9. Attached!BytesAreKept'
  <2>1. (Attached!Spoiled \cup retired)' \subseteq Attached!Spoiled \cup retired
    BY DEF Attached!Spoiled, Attached!threads
  <2> QED BY <2>1, BytesStay, UpkeepAssumption
<1> QED BY <1>3, <1>4, <1>5, <1>6, <1>7, <1>8, <1>9 DEF FilesInv

\* A message is staged, or its row is claimed: nothing is handed over yet.
LEMMA PostKeeps ==
  ASSUME FilesInv, NEW m \in Attached!Messages, Attached!Post(m)
  PROVE  FilesInv'
<1>1. /\ mail[m] = "absent" /\ mail' = [mail EXCEPT ![m] = "pending"]
      /\ UNCHANGED <<tries, manifest, recovered, refused, old, disk, Attached!threads, Attached!jobs, drain, troubles>>
      /\ FileTypes
  BY DEF Attached!Post, FilesInv
<1>2. /\ mail' \in [Attached!Messages -> {"absent", "pending", "processing", "gone"}]
      /\ \A n \in Attached!Messages : mail'[n] = "gone" <=> mail[n] = "gone"
      /\ \A n \in Attached!Messages : mail'[n] = "processing" <=> mail[n] = "processing"
  BY <1>1 DEF FileTypes
<1>3. bound' \in [Attached!Messages -> 0 .. MaxMessages]
  <2>1. PICK j \in Attached!Open \cup {0} : bound' = [bound EXCEPT ![m] = j]
    BY DEF Attached!Post
  <2>2. j \in 0 .. MaxMessages
    BY <2>1, UpkeepAssumption DEF Attached!Open, Attached!Messages
  <2> QED BY <1>1, <2>1, <2>2 DEF FileTypes
<1>4. FileTypes'
  BY <1>1, <1>2, <1>3 DEF FileTypes, Attached!threads, Attached!jobs
<1>5. DrainAt'
  <2>1. Attached!Next1' = Attached!Next1
    BY <1>1 DEF Attached!Next1
  <2> QED BY <1>1, <1>2, <2>1 DEF FilesInv, DrainAt, Attached!threads, Attached!jobs,
       WholeFiles, Attached!FilesOf,
             Attached!Durable
<1>6. HandedInOrder' /\ OpenJobsRead'
  BY <1>1, <1>2 DEF FilesInv, HandedInOrder, OpenJobsRead, Attached!Open, Attached!Durable,
     Attached!jobs,
     Attached!threads
<1>7. OldIsGone'
  <2>1. old \subseteq Attached!Messages /\ \A f \in pending : MessageOf[f] \in Attached!Messages
    BY UpkeepAssumption DEF FilesInv, FileTypes, Attached!Messages
  <2> QED BY <1>1, <1>2, <2>1 DEF FilesInv, OldIsGone, Attached!threads
<1>8. HandedFiles' /\ HelpIsKept' /\ Attached!NothingForgotten'
  BY <1>1, <1>2 DEF FilesInv, HandedFiles, HelpIsKept, Attached!NothingForgotten,
     Attached!Durable, Attached!Known,
     Attached!jobs, Attached!threads, WholeFiles, Attached!FilesOf
<1>9. Attached!RepliesAreComplete' /\ Attached!JobsAreInformed'
  BY <1>1 DEF FilesInv, Attached!RepliesAreComplete, Attached!JobsAreInformed, Attached!Open,
     Attached!Known,
     Attached!jobs, Attached!threads, Attached!FilesOf
<1>10. Attached!BytesAreKept'
  <2>1. (Attached!Spoiled \cup retired)' \subseteq Attached!Spoiled \cup retired
    BY <1>1 DEF Attached!Spoiled, Attached!threads
  <2> QED BY <1>1, <2>1, BytesStay, UpkeepAssumption DEF FileTypes
<1> QED BY <1>4, <1>5, <1>6, <1>7, <1>8, <1>9, <1>10 DEF FilesInv

\* A row is claimed only when every earlier one is done with.
LEMMA ClaimKeeps ==
  ASSUME FilesInv, NEW m \in Attached!Messages, Attached!Claim(m)
  PROVE  FilesInv'
<1>1. /\ mail[m] = "pending" /\ mail' = [mail EXCEPT ![m] = "processing"] /\ drain = Attached!Idle
      /\ drain' = [at |-> "own", m |-> m, todo |-> Attached!FilesOf(m)]
      /\ \A k \in 1 .. (m - 1) : mail[k] = "gone"
      /\ UNCHANGED <<tries, bound, manifest, recovered, refused, old, disk, Attached!threads, Attached!jobs, troubles>>
      /\ FileTypes
  BY DEF Attached!Claim, FilesInv
<1>2. /\ mail' \in [Attached!Messages -> {"absent", "pending", "processing", "gone"}]
      /\ mail'[m] = "processing"
      /\ \A n \in Attached!Messages : mail'[n] = "gone" <=> mail[n] = "gone"
      /\ \A n \in Attached!Messages : mail'[n] = "processing" => n = m \/ mail[n] = "processing"
  BY <1>1 DEF FileTypes
<1>3. drain' \in [at : DrainSteps, m : 0 .. MaxMessages, todo : SUBSET Attachments]
  BY <1>1, UpkeepAssumption DEF Attached!FilesOf, Attached!Messages, DrainSteps
<1>4. FileTypes'
  BY <1>1, <1>2, <1>3 DEF FileTypes, Attached!threads, Attached!jobs, DrainSteps
<1>5. DrainAt'
  BY <1>1, <1>2 DEF DrainAt, WholeFiles, Attached!FilesOf
<1>6. \A k \in Attached!Messages : k < m => mail[k] = "gone"
  BY <1>1, UpkeepAssumption DEF Attached!Messages
<1>7. HandedInOrder' /\ OpenJobsRead'
  BY <1>1, <1>2, <1>6 DEF FilesInv, HandedInOrder, OpenJobsRead, Attached!Open,
     Attached!Durable, Attached!jobs,
     Attached!threads
<1>8. OldIsGone'
  <2>1. old \subseteq Attached!Messages /\ \A f \in pending : MessageOf[f] \in Attached!Messages
    BY UpkeepAssumption DEF FilesInv, FileTypes, Attached!Messages
  <2> QED BY <1>1, <1>2, <2>1 DEF FilesInv, OldIsGone, Attached!threads
<1>9. HandedFiles' /\ HelpIsKept' /\ Attached!NothingForgotten'
  BY <1>1, <1>2 DEF FilesInv, HandedFiles, HelpIsKept, Attached!NothingForgotten,
     Attached!Durable, Attached!Known,
     Attached!jobs, Attached!threads, WholeFiles, Attached!FilesOf
<1>10. Attached!RepliesAreComplete' /\ Attached!JobsAreInformed'
  BY <1>1 DEF FilesInv, Attached!RepliesAreComplete, Attached!JobsAreInformed, Attached!Open,
     Attached!Known,
     Attached!jobs, Attached!threads, Attached!FilesOf
<1>11. Attached!BytesAreKept'
  <2>1. (Attached!Spoiled \cup retired)' \subseteq Attached!Spoiled \cup retired
    BY <1>1 DEF Attached!Spoiled, Attached!threads
  <2> QED BY <1>1, <2>1, BytesStay, UpkeepAssumption DEF FileTypes
<1> QED BY <1>4, <1>5, <1>7, <1>8, <1>9, <1>10, <1>11 DEF FilesInv

\* A row goes: its message is live input or a job, was refused, or failed with a job of its own.
LEMMA GoneDoes ==
  ASSUME FilesInv, drain.at # "idle", Attached!Gone(drain.m)
  PROVE  /\ drain.m \in Attached!Messages /\ mail[drain.m] = "processing"
         /\ drain' = Attached!Idle /\ manifest' \in SUBSET Attachments
         /\ drain' \in [at : DrainSteps, m : 0 .. MaxMessages, todo : SUBSET Attachments]
         /\ recovered' \in [Attached!Messages -> SUBSET Attachments]
         /\ \A n \in Attached!Messages : n # drain.m => recovered'[n] = recovered[n] /\ mail'[n] = mail[n]
         /\ mail' \in [Attached!Messages -> {"absent", "pending", "processing", "gone"}]
         /\ mail'[drain.m] = "gone"
<1>1. drain.m \in Attached!Messages /\ mail[drain.m] = "processing"
  BY DEF FilesInv, DrainAt
<1>2. drain' = Attached!Idle
  BY DEF Attached!Gone
<1>3. drain' \in [at : DrainSteps, m : 0 .. MaxMessages, todo : SUBSET Attachments]
  BY <1>2, UpkeepAssumption DEF Attached!Idle, DrainSteps
<1>4. /\ mail' = [mail EXCEPT ![drain.m] = "gone"] /\ manifest' = manifest \ Attached!FilesOf(drain.m)
      /\ recovered' = [recovered EXCEPT ![drain.m] = {}]
  BY DEF Attached!Gone
<1>5. manifest \in SUBSET Attachments
  BY DEF FilesInv, FileTypes
<1>6. manifest' \in SUBSET Attachments
  BY <1>4, <1>5
<1> QED BY <1>1, <1>2, <1>3, <1>4, <1>6 DEF FilesInv, FileTypes

\* A row goes away only after it was handed over, or refused.
LEMMA CompleteKeeps ==
  ASSUME FilesInv, Attached!Complete \/ Attached!Refuse
  PROVE  FilesInv'
<1> DEFINE m == drain.m
<1>1. /\ drain.at # "idle" /\ Attached!Gone(m)
      /\ UNCHANGED <<tries, bound, old, disk, Attached!threads, Attached!jobs, troubles>>
      /\ refused' = refused \/ refused' = refused \cup {m}
      /\ Attached!Durable(m) \/ m \in refused'
  <2>1. CASE Attached!Complete
    <3>1. drain.at = "complete"
      BY <2>1 DEF Attached!Complete
    <3>2. Attached!Durable(m)
      BY <3>1 DEF FilesInv, DrainAt
    <3> QED BY <2>1, <3>1, <3>2 DEF Attached!Complete
  <2>2. CASE Attached!Refuse
    <3>1. drain.at = "hand" /\ Attached!Gone(m) /\ refused' = refused \cup {m}
          /\ UNCHANGED <<tries, bound, old, disk, Attached!threads, Attached!jobs, troubles>>
      BY <2>2 DEF Attached!Refuse
    <3> QED BY <3>1
  <2> QED BY <2>1, <2>2
<1>2. /\ m \in Attached!Messages /\ mail[m] = "processing"
      /\ drain' = Attached!Idle /\ manifest' \in SUBSET Attachments
      /\ drain' \in [at : DrainSteps, m : 0 .. MaxMessages, todo : SUBSET Attachments]
      /\ recovered' \in [Attached!Messages -> SUBSET Attachments]
      /\ \A n \in Attached!Messages : n # m => recovered'[n] = recovered[n] /\ mail'[n] = mail[n]
      /\ mail' \in [Attached!Messages -> {"absent", "pending", "processing", "gone"}]
      /\ mail'[m] = "gone"
  BY <1>1, GoneDoes
<1>3. refused' \in SUBSET Attached!Messages
  BY <1>1, <1>2 DEF FilesInv, FileTypes
<1> HIDE DEF m
<1>4. FileTypes'
  BY <1>1, <1>2, <1>3 DEF FilesInv, FileTypes, Attached!threads, Attached!jobs, DrainSteps
<1>5. DrainAt'
  BY <1>2 DEF DrainAt, Attached!Idle
<1>6. \A n \in Attached!Messages : /\ mail[n] = "gone" => mail'[n] = "gone"
                                   /\ mail'[n] = "processing" => mail[n] = "processing"
                                   /\ mail'[n] = "gone" => mail[n] = "gone" \/ n = m
  BY <1>2
<1>7. HandedInOrder' /\ OpenJobsRead'
  BY <1>1, <1>6 DEF FilesInv, HandedInOrder, OpenJobsRead, Attached!Open, Attached!Durable,
     Attached!jobs,
     Attached!threads
<1>8. OldIsGone'
  <2>1. old \subseteq Attached!Messages /\ \A f \in pending : MessageOf[f] \in Attached!Messages
    BY UpkeepAssumption DEF FilesInv, FileTypes, Attached!Messages
  <2> QED BY <1>1, <1>6, <2>1 DEF FilesInv, OldIsGone, Attached!threads
<1>9. HandedFiles'
  BY <1>1, <1>6 DEF FilesInv, HandedFiles, Attached!Durable, Attached!Known,
     Attached!jobs, Attached!threads, WholeFiles, Attached!FilesOf
<1>10. HelpIsKept'
  BY <1>1, <1>2 DEF FilesInv, HelpIsKept, Attached!Durable, Attached!jobs, Attached!threads
<1>11. Attached!NothingForgotten'
  <2>1. Attached!Durable(m) => Attached!FilesOf(m) \subseteq Attached!Known \cup retired
    BY <1>2 DEF FilesInv, HandedFiles
  <2> QED BY <1>1, <1>6, <2>1 DEF FilesInv, Attached!NothingForgotten, Attached!Known,
       Attached!threads,
             Attached!FilesOf
<1>12. Attached!RepliesAreComplete' /\ Attached!JobsAreInformed'
  BY <1>1 DEF FilesInv, Attached!RepliesAreComplete, Attached!JobsAreInformed, Attached!Open,
     Attached!Known,
     Attached!jobs, Attached!threads, Attached!FilesOf
<1>13. Attached!BytesAreKept'
  <2>1. (Attached!Spoiled \cup retired)' \subseteq Attached!Spoiled \cup retired
    BY <1>1 DEF Attached!Spoiled, Attached!threads
  <2> QED BY <1>1, <2>1, BytesStay, UpkeepAssumption DEF FilesInv, FileTypes
<1> QED BY <1>4, <1>5, <1>7, <1>8, <1>9, <1>10, <1>11, <1>12, <1>13 DEF FilesInv

\* A message whose files cannot be had: it is tried again, or refused, or fails.
LEMMA FailOwnKeeps ==
  ASSUME FilesInv, Attached!FailOwn
  PROVE  FilesInv'
<1> DEFINE m == drain.m
           own == Attached!FilesOf(m)
           cat == catalog \cup (own \cap manifest)
<1>1. /\ drain.at = "own" /\ drain.todo # {} /\ disk[Attached!Next1] # "whole" /\ UNCHANGED <<disk, troubles>>
      /\ FileTypes
  BY DEF Attached!FailOwn, FilesInv
<1>2. /\ m \in Attached!Messages /\ mail[m] = "processing" /\ drain.todo \subseteq own
      /\ own \in SUBSET Attachments
  BY <1>1 DEF FilesInv, DrainAt, Attached!FilesOf
<1>3. ~Attached!Durable(m)
  <2>1. Attached!Next1 \in own
    BY <1>1, <1>2, FirstIs
  <2> QED BY <1>1, <1>2, <2>1 DEF FilesInv, HandedFiles, WholeFiles
<1>4. \/ /\ tries[m] + 1 < MaxTries /\ mail' = [mail EXCEPT ![m] = "pending"]
         /\ tries' = [tries EXCEPT ![m] = tries[m] + 1] /\ drain' = Attached!Idle
         /\ UNCHANGED <<bound, manifest, recovered, refused, old, Attached!threads, Attached!jobs>>
      \/ /\ pending' = pending \cup (own \ catalog) /\ refused' = refused \cup {m} /\ Attached!Gone(m)
         /\ UNCHANGED <<tries, bound, old, catalog, retired, helped, Attached!jobs>>
      \/ /\ \A f \in own \cap manifest : disk[f] = "whole"
         /\ catalog' = cat /\ pending' = pending \cup (own \ cat)
         /\ task' = [task EXCEPT ![m] = "failed"] /\ files' = [files EXCEPT ![m] = cat] /\ Attached!Gone(m)
         /\ UNCHANGED <<tries, bound, refused, old, retired, helped, notes, into, given>>
  BY DEF Attached!FailOwn, Attached!Preserve
<1>5. CASE /\ tries[m] + 1 < MaxTries /\ mail' = [mail EXCEPT ![m] = "pending"]
           /\ tries' = [tries EXCEPT ![m] = tries[m] + 1] /\ drain' = Attached!Idle
           /\ UNCHANGED <<bound, manifest, recovered, refused, old, Attached!threads, Attached!jobs>>
  <2>1. tries' \in [Attached!Messages -> 0 .. MaxTries]
    BY <1>1, <1>2, <1>5, UpkeepAssumption DEF FileTypes
  <2>2. troubles' \in 0 .. MaxTroubles /\ troubles' >= troubles
    BY <1>1, UpkeepAssumption DEF FileTypes
  <2> QED BY <1>1, <1>5, <2>1, <2>2, PutBackKeeps
<1>6. ASSUME Attached!Gone(m), UNCHANGED <<tries, bound, old, retired, helped, notes, into, given>>,
             NEW c \in SUBSET Attachments, catalog \subseteq c, c \subseteq catalog \cup own,
             \A f \in c \ catalog : disk[f] = "whole",
             catalog' = c, pending' = pending \cup (own \ c), refused' \in {refused, refused \cup {m}},
             \/ UNCHANGED <<task, files>>
             \/ task' = [task EXCEPT ![m] = "failed"] /\ files' = [files EXCEPT ![m] = c]
      PROVE  FilesInv'
  <2>1. /\ drain' = Attached!Idle /\ manifest' \in SUBSET Attachments
        /\ drain' \in [at : DrainSteps, m : 0 .. MaxMessages, todo : SUBSET Attachments]
        /\ recovered' \in [Attached!Messages -> SUBSET Attachments]
        /\ \A n \in Attached!Messages : n # m => recovered'[n] = recovered[n] /\ mail'[n] = mail[n]
        /\ mail' \in [Attached!Messages -> {"absent", "pending", "processing", "gone"}]
        /\ mail'[m] = "gone"
    BY <1>1, <1>6, GoneDoes
  <2>2. /\ task' \in [Attached!Messages -> {"none", "queued", "running", "done", "failed"}]
        /\ files' \in [Attached!Messages -> SUBSET Attachments]
        /\ \A n \in Attached!Messages : n # m => task'[n] = task[n] /\ files'[n] = files[n]
        /\ task'[m] \in {"none", "failed"} /\ task[m] = "none" /\ into[m] = 0
    BY <1>1, <1>2, <1>3, <1>6 DEF FileTypes, Attached!Durable
  <2>3. pending' \in SUBSET Attachments /\ refused' \in SUBSET Attached!Messages
    BY <1>1, <1>2, <1>6 DEF FileTypes
  <2> HIDE DEF m, own
  <2>4. FileTypes'
    BY <1>1, <1>6, <2>1, <2>2, <2>3 DEF FileTypes, DrainSteps
  <2>5. DrainAt'
    BY <2>1 DEF DrainAt, Attached!Idle
  <2>6. Attached!Open' = Attached!Open /\ m \notin Attached!Open
    BY <1>2, <2>2 DEF Attached!Open
  <2>7. \A n \in Attached!Messages : (into'[n] # 0 \/ task'[n] # "none") => Attached!Durable(n) \/ n = m
    BY <1>6, <2>2 DEF Attached!Durable
  <2>8. HandedInOrder'
    <3>1. ASSUME NEW n \in Attached!Messages,
                 mail'[n] = "processing" \/ into'[n] # 0 \/ task'[n] # "none",
                 NEW k \in Attached!Messages, k < n
          PROVE  mail'[k] = "gone"
      <4>1. mail[n] = "processing" \/ Attached!Durable(n)
        BY <1>2, <2>1, <2>7, <3>1
      <4>2. mail[k] = "gone"
        BY <3>1, <4>1 DEF FilesInv, HandedInOrder
      <4> QED BY <2>1, <4>2
    <3> QED BY <2>6, <3>1 DEF FilesInv, HandedInOrder, Attached!Durable
  <2>9. OldIsGone'
    <3>1. \A f \in pending' : MessageOf[f] \in Attached!Messages /\ mail'[MessageOf[f]] = "gone"
      <4>1. \A f \in own : MessageOf[f] = m
        BY DEF own, m, Attached!FilesOf
      <4>2. \A f \in pending : MessageOf[f] \in Attached!Messages /\ mail[MessageOf[f]] = "gone"
        BY <1>1, UpkeepAssumption DEF FilesInv, OldIsGone, FileTypes, Attached!Messages
      <4> QED BY <1>2, <1>6, <2>1, <4>1, <4>2
    <3>2. \A n \in old : mail'[n] = "gone"
      BY <1>1, <2>1 DEF FilesInv, OldIsGone, FileTypes
    <3> QED BY <1>6, <3>1, <3>2 DEF OldIsGone
  <2>10. Attached!Known' \cup retired' = Attached!Known \cup retired \cup own
         /\ Attached!Known' = Attached!Known \cup own
    BY <1>6 DEF Attached!Known
  <2>11. HandedFiles'
    <3> SUFFICES ASSUME NEW n \in Attached!Messages, into'[n] # 0 \/ task'[n] # "none"
                 PROVE  /\ Attached!FilesOf(n) \subseteq Attached!Known' \cup retired'
                        /\ mail'[n] # "gone" => \A f \in Attached!FilesOf(n) : disk'[f] = "whole"
      BY DEF HandedFiles, Attached!Durable, WholeFiles, Attached!FilesOf
    <3>1. CASE n = m
      BY <2>1, <2>10, <3>1 DEF own
    <3>2. CASE n # m
      BY <1>1, <2>1, <2>7, <2>10, <3>2 DEF FilesInv, HandedFiles, WholeFiles
    <3> QED BY <3>1, <3>2
  <2>12. HelpIsKept'
    BY <1>6, <2>1, <2>2 DEF FilesInv, HelpIsKept, Attached!Durable
  <2>13. OpenJobsRead'
    BY <1>6, <2>2, <2>6 DEF FilesInv, OpenJobsRead, Attached!Open
  <2>14. Attached!NothingForgotten'
    <3>1. \A f \in own : f \notin pending
      BY <1>2 DEF FilesInv, OldIsGone, own, m, Attached!FilesOf
    <3>2. catalog' \cap pending' = {}
      BY <1>6, <3>1 DEF FilesInv, Attached!NothingForgotten
    <3>3. ASSUME NEW n \in Attached!Messages, mail'[n] = "gone", n \notin refused'
          PROVE  Attached!FilesOf(n) \subseteq Attached!Known' \cup retired'
      <4>1. CASE n = m
        BY <2>10, <4>1 DEF own
      <4>2. CASE n # m
        BY <1>6, <2>1, <2>10, <3>3, <4>2 DEF FilesInv, Attached!NothingForgotten
      <4> QED BY <4>1, <4>2
    <3> QED BY <3>2, <3>3 DEF Attached!NothingForgotten, Attached!FilesOf
  <2>15. Attached!RepliesAreComplete'
    BY <1>6 DEF FilesInv, Attached!RepliesAreComplete, Attached!FilesOf
  <2>16. Attached!JobsAreInformed'
    <3> SUFFICES ASSUME NEW j \in Attached!Open, NEW f \in Attached!Known',
                        MessageOf[f] < j \/ into[MessageOf[f]] = j
                 PROVE  f \in files[j] \cup notes[j]
      BY <1>6, <2>2, <2>6 DEF Attached!JobsAreInformed, Attached!Open
    <3>1. CASE f \in Attached!Known
      BY <3>1 DEF FilesInv, Attached!JobsAreInformed
    <3>2. CASE f \in own
      <4>1. MessageOf[f] = m /\ j \in Attached!Messages /\ Attached!Durable(j)
        BY <3>2 DEF own, m, Attached!FilesOf, Attached!Open, Attached!Durable
      <4>2. m < j => mail[m] = "gone"
        BY <1>2, <4>1 DEF FilesInv, HandedInOrder
      <4>3. j # 0
        BY <4>1, UpkeepAssumption DEF Attached!Messages
      <4> QED BY <1>2, <2>2, <4>1, <4>2, <4>3
    <3> QED BY <2>10, <3>1, <3>2
  <2>17. Attached!BytesAreKept'
    <3>1. (Attached!Spoiled \cup retired)' \subseteq Attached!Spoiled \cup retired
      BY <1>1, <1>6 DEF Attached!Spoiled
    <3> QED BY <1>1, <3>1, BytesStay, UpkeepAssumption DEF FileTypes
  <2> QED BY <2>4, <2>5, <2>8, <2>9, <2>11, <2>12, <2>13, <2>14, <2>15, <2>16, <2>17 DEF FilesInv
<1>7. CASE /\ pending' = pending \cup (own \ catalog) /\ refused' = refused \cup {m} /\ Attached!Gone(m)
           /\ UNCHANGED <<tries, bound, old, catalog, retired, helped, Attached!jobs>>
  <2>1. catalog \in SUBSET Attachments /\ catalog \subseteq catalog \cup own /\ \A f \in catalog \ catalog : disk[f] = "whole"
    BY <1>1 DEF FileTypes
  <2>2. /\ UNCHANGED <<tries, bound, old, retired, helped, notes, into, given>> /\ UNCHANGED <<task, files>>
        /\ catalog' = catalog /\ catalog \subseteq catalog
    BY <1>7 DEF Attached!jobs
  <2> HIDE DEF m, own
  <2> QED BY <1>6, <1>7, <2>1, <2>2
<1>8. CASE /\ \A f \in own \cap manifest : disk[f] = "whole"
           /\ catalog' = cat /\ pending' = pending \cup (own \ cat)
           /\ task' = [task EXCEPT ![m] = "failed"] /\ files' = [files EXCEPT ![m] = cat] /\ Attached!Gone(m)
           /\ UNCHANGED <<tries, bound, refused, old, retired, helped, notes, into, given>>
  <2>1. /\ cat \in SUBSET Attachments /\ catalog \subseteq cat /\ cat \subseteq catalog \cup own
        /\ \A f \in cat \ catalog : disk[f] = "whole"
    BY <1>1, <1>2, <1>8 DEF FileTypes
  <2> HIDE DEF m, own, cat
  <2> QED BY <1>6, <1>8, <2>1
<1> QED BY <1>4, <1>5, <1>7, <1>8

\* A message is handed over, to the open job or as a job of its own.
LEMMA HandKeeps ==
  ASSUME FilesInv, (\E j \in Attached!Messages : Attached!HandLive(j)) \/ Attached!Enqueue
  PROVE  FilesInv'
<1> DEFINE m == drain.m
           own == Attached!FilesOf(m)
<1>1. /\ drain.at = "hand" /\ ~Attached!Durable(m) /\ FileTypes /\ drain' = [drain EXCEPT !.at = "complete"]
      /\ catalog' = catalog \cup own
      /\ UNCHANGED <<Attached!rows, disk, pending, retired, helped, troubles>>
  BY DEF Attached!HandLive, Attached!Enqueue, FilesInv
<1>2. /\ m \in Attached!Messages /\ mail[m] = "processing" /\ own \in SUBSET Attachments
      /\ task[m] = "none" /\ into[m] = 0
      /\ \A f \in own : disk[f] = "whole" /\ f \notin pending /\ MessageOf[f] = m
  BY <1>1 DEF FilesInv, DrainAt, WholeFiles, Attached!FilesOf, OldIsGone, Attached!Durable
<1>3. \E j \in Attached!Messages :
        /\ Attached!Open' = {j}
        /\ files' = [files EXCEPT ![j] = catalog'] /\ notes' = [notes EXCEPT ![j] = pending]
        /\ \/ /\ j \in Attached!Open /\ into' = [into EXCEPT ![m] = j] /\ task' = task
              /\ given' = [given EXCEPT ![m] = own \cup recovered[m]]
           \/ /\ j = m /\ task' = [task EXCEPT ![m] = "queued"] /\ into' = into /\ given' = given
  <2>1. ASSUME NEW j \in Attached!Messages, Attached!HandLive(j)
        PROVE  /\ Attached!Open' = {j}
               /\ files' = [files EXCEPT ![j] = catalog'] /\ notes' = [notes EXCEPT ![j] = pending]
               /\ j \in Attached!Open /\ into' = [into EXCEPT ![m] = j] /\ task' = task
               /\ given' = [given EXCEPT ![m] = own \cup recovered[m]]
    <3>1. /\ files' = [files EXCEPT ![j] = catalog'] /\ notes' = [notes EXCEPT ![j] = pending]
          /\ j \in Attached!Open /\ into' = [into EXCEPT ![m] = j] /\ task' = task
          /\ given' = [given EXCEPT ![m] = own \cup recovered[m]]
      BY <2>1 DEF Attached!HandLive, Attached!LiveFiles
    <3>2. Attached!Open' = {j}
      BY <3>1 DEF FilesInv, HandedInOrder, Attached!Open
    <3> QED BY <3>1, <3>2
  <2>2. CASE Attached!Enqueue
    <3>1. /\ files' = [files EXCEPT ![m] = catalog'] /\ notes' = [notes EXCEPT ![m] = pending]
          /\ task' = [task EXCEPT ![m] = "queued"] /\ into' = into /\ given' = given /\ Attached!Open = {}
      BY <2>2 DEF Attached!Enqueue
    <3>2. Attached!Open' = {m}
      BY <1>1, <1>2, <3>1 DEF FileTypes, Attached!Open
    <3> QED BY <1>2, <3>1, <3>2
  <2> QED BY <2>1, <2>2
<1>4. PICK j \in Attached!Messages :
        /\ Attached!Open' = {j}
        /\ files' = [files EXCEPT ![j] = catalog'] /\ notes' = [notes EXCEPT ![j] = pending]
        /\ \/ /\ j \in Attached!Open /\ into' = [into EXCEPT ![m] = j] /\ task' = task
              /\ given' = [given EXCEPT ![m] = own \cup recovered[m]]
           \/ /\ j = m /\ task' = [task EXCEPT ![m] = "queued"] /\ into' = into /\ given' = given
  BY <1>3
<1>5. j \in 0 .. MaxMessages /\ j # 0
  BY UpkeepAssumption DEF Attached!Messages
<1>6. /\ drain' \in [at : DrainSteps, m : 0 .. MaxMessages, todo : SUBSET Attachments]
      /\ drain'.at = "complete" /\ drain'.m = m
  <2>1. drain.todo \in SUBSET Attachments /\ "complete" \in DrainSteps
    BY <1>1 DEF FileTypes, DrainSteps
  <2> QED BY <1>1, <2>1, DrainNext
<1>7. catalog' \in SUBSET Attachments
  BY <1>1, <1>2 DEF FileTypes
<1> HIDE DEF m, own
<1>8. /\ files' \in [Attached!Messages -> SUBSET Attachments] /\ notes' \in [Attached!Messages -> SUBSET Attachments]
      /\ files'[j] = catalog' /\ notes'[j] = pending
  BY <1>1, <1>4, <1>7 DEF FileTypes
<1>9. /\ into' \in [Attached!Messages -> 0 .. MaxMessages]
      /\ task' \in [Attached!Messages -> {"none", "queued", "running", "done", "failed"}]
      /\ given' \in [Attached!Messages -> SUBSET Attachments]
      /\ \A n \in Attached!Messages : n # m => into'[n] = into[n] /\ task'[n] = task[n] /\ given'[n] = given[n]
      /\ into'[m] # 0 \/ task'[m] # "none"
      /\ into'[m] # 0 => given'[m] = own \cup recovered[m]
      /\ into'[m] \in {0, j}
      /\ task'[m] = "none" => j \in Attached!Open
  <2>1. recovered[m] \in SUBSET Attachments
    BY <1>1, <1>2 DEF FileTypes
  <2> QED BY <1>1, <1>2, <1>4, <1>5, <2>1 DEF FileTypes
<1>10. FileTypes'
  BY <1>1, <1>6, <1>7, <1>8, <1>9 DEF FileTypes, DrainSteps, Attached!rows
<1>11. Attached!Known' = Attached!Known \cup own /\ UNCHANGED <<mail, recovered, refused, old>>
  BY <1>1 DEF Attached!Known, Attached!rows
<1>12. DrainAt'
  <2>1. own' = own
    BY <1>6 DEF own, m, Attached!FilesOf
  <2> QED BY <1>1, <1>2, <1>6, <1>9, <1>11, <2>1 DEF DrainAt, WholeFiles, Attached!Durable, own, m
<1>13. \A n \in Attached!Messages : (into'[n] # 0 \/ task'[n] # "none") => Attached!Durable(n) \/ n = m
  BY <1>9 DEF Attached!Durable
<1>14. HandedInOrder'
  <2>1. ASSUME NEW n \in Attached!Messages,
               mail'[n] = "processing" \/ into'[n] # 0 \/ task'[n] # "none",
               NEW k \in Attached!Messages, k < n
        PROVE  mail'[k] = "gone"
    BY <1>2, <1>11, <1>13, <2>1 DEF FilesInv, HandedInOrder
  <2> QED BY <1>4, <2>1 DEF HandedInOrder, Attached!Durable
<1>15. OldIsGone'
  BY <1>1, <1>11 DEF FilesInv, OldIsGone
<1>16. HandedFiles'
  <2> SUFFICES ASSUME NEW n \in Attached!Messages, into'[n] # 0 \/ task'[n] # "none"
               PROVE  /\ Attached!FilesOf(n) \subseteq Attached!Known' \cup retired'
                      /\ mail'[n] # "gone" => \A f \in Attached!FilesOf(n) : disk'[f] = "whole"
    BY DEF HandedFiles, Attached!Durable, WholeFiles, Attached!FilesOf
  <2>1. CASE n = m
    BY <1>1, <1>2, <1>11, <2>1 DEF own
  <2>2. CASE n # m
    BY <1>1, <1>11, <1>13, <2>2 DEF FilesInv, HandedFiles, WholeFiles
  <2> QED BY <2>1, <2>2
<1>17. HelpIsKept'
  <2> SUFFICES ASSUME NEW f \in Attachments, NEW n \in Attached!Messages, helped'[f] = n,
                      ~(into'[n] # 0 \/ task'[n] # "none"), mail'[n] # "gone"
               PROVE  f \in recovered'[n]
    BY DEF HelpIsKept, Attached!Durable
  <2>1. n # m
    BY <1>9
  <2>2. ~Attached!Durable(n)
    BY <1>9, <2>1 DEF Attached!Durable
  <2> QED BY <1>1, <1>11, <2>2 DEF FilesInv, HelpIsKept
<1>18. OpenJobsRead'
  BY <1>4, <1>8 DEF OpenJobsRead
<1>19. Attached!NothingForgotten'
  <2>1. catalog' \cap pending' = {}
    BY <1>1, <1>2 DEF FilesInv, Attached!NothingForgotten, own, m
  <2>2. \A n \in Attached!Messages : mail'[n] = "gone" /\ n \notin refused' =>
          Attached!FilesOf(n) \subseteq Attached!Known' \cup retired'
    BY <1>1, <1>11 DEF FilesInv, Attached!NothingForgotten
  <2> QED BY <2>1, <2>2 DEF Attached!NothingForgotten, Attached!FilesOf
<1>20. Attached!RepliesAreComplete'
  <2> SUFFICES ASSUME NEW n \in Attached!Messages, into'[n] # 0
               PROVE  Attached!FilesOf(n) \cup {f \in Attachments : helped'[f] = n} \subseteq given'[n]
    BY DEF Attached!RepliesAreComplete, Attached!FilesOf
  <2>1. CASE n = m
    <3>1. \A f \in Attachments : helped[f] = m => f \in recovered[m]
      BY <1>1, <1>2 DEF FilesInv, HelpIsKept, Attached!Durable
    <3> QED BY <1>1, <1>9, <2>1, <3>1 DEF own
  <2>2. CASE n # m
    BY <1>1, <1>9, <2>2 DEF FilesInv, Attached!RepliesAreComplete
  <2> QED BY <2>1, <2>2
<1>21. Attached!JobsAreInformed'
  <2>1. \A f \in Attached!Known' : f \in files'[j] \cup notes'[j]
    BY <1>1, <1>8 DEF Attached!Known
  <2> QED BY <1>4, <2>1 DEF Attached!JobsAreInformed
<1>22. Attached!BytesAreKept'
  <2>1. (Attached!Spoiled \cup retired)' \subseteq Attached!Spoiled \cup retired
    BY <1>1, <1>2 DEF Attached!Spoiled, own, m
  <2> QED BY <1>1, <2>1, BytesStay, UpkeepAssumption DEF FileTypes
<1> QED BY <1>10, <1>12, <1>14, <1>15, <1>16, <1>17, <1>18, <1>19, <1>20, <1>21, <1>22
     DEF FilesInv

\* A job starts, ends, or is put back: no other opens, and its files stay.
LEMMA JobKeeps ==
  ASSUME FilesInv, NEW j \in Attached!Messages,
         Attached!StartJob(j) \/ Attached!LoseOwn(j) \/ Attached!EndJob(j) \/ Attached!Requeue(j)
  PROVE  FilesInv'
<1>1. /\ UNCHANGED <<Attached!rows, disk, Attached!threads, files, notes, into, given, drain>> /\ FileTypes
      /\ troubles' \in 0 .. MaxTroubles /\ troubles' >= troubles
  BY UpkeepAssumption DEF Attached!StartJob, Attached!LoseOwn, Attached!EndJob,
     Attached!Requeue, Attached!Trouble,
     FilesInv, FileTypes
<1>2. \E e \in {"queued", "running", "done", "failed"} : task' = [task EXCEPT ![j] = e] /\ j \in Attached!Open
  BY DEF Attached!StartJob, Attached!LoseOwn, Attached!EndJob, Attached!Requeue, Attached!Open
<1>3. /\ task' \in [Attached!Messages -> {"none", "queued", "running", "done", "failed"}]
      /\ \A n \in Attached!Messages : task'[n] # "none" <=> task[n] # "none"
      /\ Attached!Open' \subseteq Attached!Open
  BY <1>1, <1>2 DEF FileTypes, Attached!Open
<1>4. FileTypes'
  BY <1>1, <1>3 DEF FileTypes, Attached!rows, Attached!threads
<1>5. DrainAt'
  <2>1. Attached!Next1' = Attached!Next1
    BY <1>1 DEF Attached!Next1
  <2>2. \A n \in Attached!Messages : (into'[n] # 0 \/ task'[n] # "none") <=> Attached!Durable(n)
    BY <1>1, <1>3 DEF Attached!Durable
  <2> QED BY <1>1, <2>1, <2>2 DEF FilesInv, DrainAt, Attached!threads, Attached!rows,
       WholeFiles, Attached!FilesOf,
             Attached!Durable
<1>6. HandedInOrder' /\ OpenJobsRead' /\ OldIsGone'
  BY <1>1, <1>3 DEF FilesInv, HandedInOrder, OpenJobsRead, OldIsGone, Attached!Durable,
     Attached!rows,
     Attached!threads
<1>7. HandedFiles' /\ HelpIsKept' /\ Attached!NothingForgotten'
  BY <1>1, <1>3 DEF FilesInv, HandedFiles, HelpIsKept, Attached!NothingForgotten,
     Attached!Durable, Attached!Known,
     Attached!rows, Attached!threads, WholeFiles, Attached!FilesOf
<1>8. Attached!RepliesAreComplete' /\ Attached!JobsAreInformed'
  BY <1>1, <1>3 DEF FilesInv, Attached!RepliesAreComplete, Attached!JobsAreInformed,
     Attached!Known,
     Attached!threads, Attached!FilesOf
<1>9. Attached!BytesAreKept'
  <2>1. (Attached!Spoiled \cup retired)' \subseteq Attached!Spoiled \cup retired
    BY <1>1 DEF Attached!Spoiled, Attached!threads
  <2> QED BY <1>1, <2>1, BytesStay, UpkeepAssumption
<1> QED BY <1>4, <1>5, <1>6, <1>7, <1>8, <1>9 DEF FilesInv

\* A bad file of an earlier message is taken out of the catalog and out of the open job.
LEMMA RetireKeeps ==
  ASSUME FilesInv, NEW j \in Attached!Messages, NEW f \in Attachments, Attached!Retire(j, f)
  PROVE  FilesInv'
<1>1. /\ j \in Attached!Open /\ disk[f] # "whole" /\ f \in files[j]
      /\ catalog' = catalog \ {f} /\ retired' = retired \cup {f} /\ FileTypes
      /\ files' = [k \in Attached!Messages |-> IF k \in Attached!Open THEN catalog' ELSE files[k]]
      /\ UNCHANGED <<Attached!rows, disk, pending, helped, task, notes, into, given, drain, troubles>>
  BY DEF Attached!Retire, Attached!Open, Attached!Bad, FilesInv
<1>2. f \in catalog /\ files[j] \subseteq catalog
  BY <1>1 DEF FilesInv, OpenJobsRead
<1>3. files' \in [Attached!Messages -> SUBSET Attachments] /\ catalog' \in SUBSET Attachments
      /\ retired' \in SUBSET Attachments
  BY <1>1 DEF FileTypes
<1>4. FileTypes'
  BY <1>1, <1>3 DEF FileTypes, Attached!rows
<1>5. DrainAt'
  <2>1. Attached!Next1' = Attached!Next1
    BY <1>1 DEF Attached!Next1
  <2> QED BY <1>1, <2>1 DEF FilesInv, DrainAt, Attached!rows, WholeFiles, Attached!FilesOf,
       Attached!Durable
<1>6. Attached!Open' = Attached!Open
  BY <1>1 DEF Attached!Open
<1>7. HandedInOrder' /\ OldIsGone' /\ HelpIsKept'
  BY <1>1, <1>6 DEF FilesInv, HandedInOrder, OldIsGone, HelpIsKept, Attached!Durable,
     Attached!rows
<1>8. OpenJobsRead'
  BY <1>1, <1>6 DEF OpenJobsRead, Attached!Open
<1>9. (Attached!Known \cup retired)' = Attached!Known \cup retired /\ Attached!Known' \subseteq Attached!Known
  BY <1>1, <1>2 DEF Attached!Known
<1>10. HandedFiles' /\ Attached!NothingForgotten'
  BY <1>1, <1>9 DEF FilesInv, HandedFiles, Attached!NothingForgotten, Attached!Durable,
     Attached!rows, WholeFiles, Attached!FilesOf
<1>11. Attached!RepliesAreComplete'
  BY <1>1 DEF FilesInv, Attached!RepliesAreComplete, Attached!FilesOf
<1>12. Attached!JobsAreInformed'
  <2> SUFFICES ASSUME NEW k \in Attached!Open, NEW g \in Attached!Known',
                      MessageOf[g] < k \/ into[MessageOf[g]] = k
               PROVE  g \in files'[k] \cup notes[k]
    BY <1>1, <1>6 DEF Attached!JobsAreInformed
  <2>1. g \in files[k] \cup notes[k]
    BY <1>9 DEF FilesInv, Attached!JobsAreInformed
  <2>2. files'[k] = catalog' /\ files[k] \subseteq catalog
    BY <1>1 DEF FilesInv, OpenJobsRead, Attached!Open
  <2>3. g \in catalog' \/ g \in pending
    BY <1>1 DEF Attached!Known
  <2>4. catalog \cap pending = {}
    BY DEF FilesInv, Attached!NothingForgotten
  <2> QED BY <2>1, <2>2, <2>3, <2>4
<1>13. Attached!BytesAreKept'
  <2>1. (Attached!Spoiled \cup retired)' \subseteq Attached!Spoiled \cup retired
    BY <1>1, <1>2 DEF Attached!Spoiled
  <2> QED BY <1>1, <2>1, BytesStay, UpkeepAssumption DEF FileTypes
<1> QED BY <1>4, <1>5, <1>7, <1>8, <1>10, <1>11, <1>12, <1>13 DEF FilesInv

\* Time passes, bytes are lost or removed: what a message at work relies on stays.
LEMMA OutsideStep ==
  ASSUME FilesInv, UNCHANGED ThreadState, UNCHANGED JobState, UNCHANGED <<drain, manifest>>,
         disk' \in [Attachments -> {"none", "whole", "bad"}], old' \in SUBSET Attached!Messages,
         troubles' \in 0 .. MaxTroubles, \A m \in old' : mail[m] = "gone",
         \A f \in Attachments : mail[MessageOf[f]] # "gone" /\ disk[f] = "whole" => disk'[f] = "whole",
         drain.at = "kept" =>
           disk'[Attached!Next1] = "whole" /\ MessageOf[Attached!Next1] \notin old',
         Attached!BytesAreKept'
  PROVE  FilesInv'
<1>1. FileTypes' /\ FileTypes
  BY DEF FilesInv, FileTypes, ThreadState, JobState
<1>2. \A m \in Attached!Messages : mail[m] # "gone" =>
        \A f \in Attached!FilesOf(m) : disk[f] = "whole" => disk'[f] = "whole"
  BY DEF Attached!FilesOf
<1>3. DrainAt'
  <2>1. Attached!Next1' = Attached!Next1
    BY DEF Attached!Next1
  <2>2. drain.at # "idle" =>
          drain.m \in Attached!Messages /\ mail[drain.m] # "gone" /\ drain.at \in DrainSteps
    BY <1>1 DEF FilesInv, DrainAt, DrainSteps, FileTypes
  <2>3. drain.at # "idle" => \A f \in Attached!FilesOf(drain.m) : disk[f] = "whole" => disk'[f] = "whole"
    BY <1>2, <2>2
  <2> QED BY <2>1, <2>2, <2>3 DEF FilesInv, DrainAt, WholeFiles, ThreadState, JobState,
       Attached!Durable,
             Attached!FilesOf
<1>4. HandedInOrder' /\ HelpIsKept' /\ OpenJobsRead' /\ OldIsGone'
  BY DEF FilesInv, HandedInOrder, OldIsGone, HelpIsKept, OpenJobsRead,
     Attached!Open, Attached!Durable, ThreadState, JobState
<1>5. HandedFiles'
  BY <1>2 DEF FilesInv, HandedFiles, Attached!Known, Attached!Durable, ThreadState, JobState,
     WholeFiles,
         Attached!FilesOf
<1>6. Attached!NothingForgotten' /\ Attached!RepliesAreComplete' /\ Attached!JobsAreInformed'
  BY DEF FilesInv, Attached!NothingForgotten, Attached!RepliesAreComplete,
     Attached!JobsAreInformed,
     Attached!Open, Attached!Known, ThreadState, JobState
<1> QED BY <1>1, <1>3, <1>4, <1>5, <1>6 DEF FilesInv

\* Bytes go bad only where the row is gone, and the loss is counted.
LEMMA SpoilKeeps ==
  ASSUME FilesInv, "inbox" \notin Windows, NEW f \in Attachments, Attached!Spoil(f)
  PROVE  FilesInv'
<1>1. /\ troubles < MaxTroubles /\ troubles' = troubles + 1 /\ f \in catalog /\ mail[MessageOf[f]] = "gone"
      /\ UNCHANGED <<Attached!rows, Attached!threads, Attached!jobs, drain>> /\ FileTypes
  BY DEF Attached!Spoil, Attached!Trouble, FilesInv
<1>2. PICK d \in {"none", "bad"} : disk' = [disk EXCEPT ![f] = d]
  BY DEF Attached!Spoil
<1>3. /\ disk' \in [Attachments -> {"none", "whole", "bad"}]
      /\ \A g \in Attachments : g # f => disk'[g] = disk[g]
  BY <1>1, <1>2 DEF FileTypes
<1>4. troubles \in Nat /\ troubles' \in 0 .. MaxTroubles
  BY <1>1, UpkeepAssumption DEF FileTypes
<1>5. drain.at = "kept" => Attached!Next1 # f /\ Attached!Next1 \in Attachments
  <2> SUFFICES ASSUME drain.at = "kept" PROVE Attached!Next1 # f /\ Attached!Next1 \in Attachments
    OBVIOUS
  <2>1. Attached!Next1 \in pending
    BY <1>1, FirstIs DEF FilesInv, DrainAt
  <2> QED BY <1>1, <2>1 DEF FilesInv, Attached!NothingForgotten, FileTypes
<1>6. Attached!BytesAreKept'
  <2> DEFINE S == Attached!Spoiled \cup retired
             T == (Attached!Spoiled \cup retired)'
  <2>1. IsFiniteSet(S)
    <3>1. S \subseteq Attachments
      BY <1>1 DEF FileTypes, Attached!Spoiled
    <3> QED BY <3>1, UpkeepAssumption, FS_Subset
  <2>2. T \subseteq S \cup {f}
    BY <1>1, <1>3 DEF Attached!Spoiled, Attached!threads, FileTypes
  <2>3. /\ IsFiniteSet(S \cup {f})
        /\ Cardinality(S \cup {f}) = IF f \in S THEN Cardinality(S) ELSE Cardinality(S) + 1
    BY <2>1, FS_AddElement
  <2>4. /\ Cardinality(T) =< Cardinality(S \cup {f}) /\ Cardinality(S) \in Nat
        /\ Cardinality(T) \in Nat /\ Cardinality(S \cup {f}) \in Nat
    BY <2>1, <2>2, <2>3, FS_Subset, FS_CardinalityType
  <2>5. Cardinality(S) =< troubles
    BY FilesCardinality DEF FilesInv, Attached!BytesAreKept
  <2>6. Cardinality(T) =< troubles'
    <3> HIDE DEF S, T
    <3> QED BY <1>1, <1>4, <2>3, <2>4, <2>5
  <2> QED BY <2>6, FilesCardinality DEF Attached!BytesAreKept
<1>7. old' \in SUBSET Attached!Messages /\ \A m \in old' : mail[m] = "gone"
  BY <1>1 DEF FilesInv, FileTypes, OldIsGone, Attached!rows
<1>8. drain.at = "kept" => disk'[Attached!Next1] = "whole" /\ MessageOf[Attached!Next1] \notin old'
  BY <1>1, <1>3, <1>5 DEF FilesInv, DrainAt, Attached!rows
<1>9. \A g \in Attachments : mail[MessageOf[g]] # "gone" /\ disk[g] = "whole" => disk'[g] = "whole"
  BY <1>1, <1>3
<1>10. UNCHANGED ThreadState /\ UNCHANGED JobState /\ UNCHANGED <<drain, manifest>>
  BY <1>1 DEF ThreadState, JobState, Attached!rows, Attached!threads, Attached!jobs
<1> QED BY <1>3, <1>4, <1>6, <1>7, <1>8, <1>9, <1>10, OutsideStep

\* Directories grow old, and those nobody needs are removed.
LEMMA SweepKeeps ==
  ASSUME FilesInv, NEW m \in Attached!Messages, Attached!Age(m) \/ Attached!Sweep(m)
  PROVE  FilesInv'
<1>1. /\ UNCHANGED ThreadState /\ UNCHANGED JobState /\ UNCHANGED <<drain, manifest>> /\ troubles' = troubles
      /\ FileTypes
  BY DEF Attached!Age, Attached!Sweep, ThreadState, JobState, Attached!rows, Attached!threads,
     Attached!jobs,
     FilesInv
<1>2. CASE Attached!Age(m)
  <2>1. /\ drain.at # "kept" /\ mail[m] = "gone" /\ old' = old \cup {m} /\ disk' = disk
    BY <1>2 DEF Attached!Age
  <2>2. old' \in SUBSET Attached!Messages /\ \A n \in old' : mail[n] = "gone"
    BY <1>1, <2>1 DEF FilesInv, FileTypes, OldIsGone
  <2>3. Attached!BytesAreKept'
    <3>1. (Attached!Spoiled \cup retired)' \subseteq Attached!Spoiled \cup retired
      BY <1>1, <2>1 DEF Attached!Spoiled, ThreadState
    <3> QED BY <1>1, <3>1, BytesStay, UpkeepAssumption DEF FileTypes
  <2> QED BY <1>1, <2>1, <2>2, <2>3, OutsideStep DEF FileTypes
<1>3. CASE Attached!Sweep(m)
  <2>1. /\ m \in old /\ Attached!FilesOf(m) \cap catalog = {} /\ old' = old
        /\ disk' = [f \in Attachments |-> IF MessageOf[f] = m THEN "none" ELSE disk[f]]
    BY <1>3 DEF Attached!Sweep, Attached!Live, Attached!rows
  <2>2. mail[m] = "gone" /\ old \in SUBSET Attached!Messages /\ \A n \in old : mail[n] = "gone"
    BY <1>1, <2>1 DEF FilesInv, FileTypes, OldIsGone
  <2>3. disk' \in [Attachments -> {"none", "whole", "bad"}]
    BY <1>1, <2>1 DEF FileTypes
  <2>4. \A f \in Attachments : mail[MessageOf[f]] # "gone" /\ disk[f] = "whole" => disk'[f] = "whole"
    BY <2>1, <2>2
  <2>5. drain.at = "kept" => disk'[Attached!Next1] = "whole" /\ MessageOf[Attached!Next1] \notin old'
    <3> SUFFICES ASSUME drain.at = "kept"
                 PROVE  disk'[Attached!Next1] = "whole" /\ MessageOf[Attached!Next1] \notin old'
      OBVIOUS
    <3>1. /\ Attached!Next1 \in Attachments /\ disk[Attached!Next1] = "whole"
          /\ MessageOf[Attached!Next1] \notin old
      BY <1>1, FirstIs, DrainIs DEF FilesInv, DrainAt
    <3> QED BY <2>1, <3>1
  <2>6. Attached!BytesAreKept'
    <3>1. (Attached!Spoiled \cup retired)' \subseteq Attached!Spoiled \cup retired
      BY <1>1, <2>1 DEF Attached!Spoiled, ThreadState, Attached!FilesOf, FileTypes
    <3> QED BY <1>1, <3>1, BytesStay, UpkeepAssumption DEF FileTypes
  <2> QED BY <1>1, <2>1, <2>2, <2>3, <2>4, <2>5, <2>6, OutsideStep DEF FileTypes
<1> QED BY <1>2, <1>3

\* A drain loop that stops gives its row back and forgets what it had in hand.
LEMMA StopKeeps ==
  ASSUME FilesInv, Attached!Restart \/ Attached!Yield
  PROVE  FilesInv'
<1>1. /\ troubles < MaxTroubles /\ troubles' = troubles + 1 /\ drain' = Attached!Idle
      /\ mail' = [mail EXCEPT ![drain.m] = "pending"]
      /\ UNCHANGED <<tries, bound, manifest, recovered, refused, old, disk, Attached!threads, Attached!jobs>>
      /\ FileTypes /\ drain.at # "idle"
  BY DEF Attached!Restart, Attached!Yield, Attached!Trouble, FilesInv, DrainAt
<1>2. troubles' \in 0 .. MaxTroubles /\ troubles' >= troubles
  BY <1>1, UpkeepAssumption DEF FileTypes
<1>3. tries' \in [Attached!Messages -> 0 .. MaxTries]
  BY <1>1 DEF FileTypes
<1> QED BY <1>1, <1>2, <1>3, PutBackKeeps

\* Every step of a thread's files keeps the invariant, restarts and lost bytes included.
LEMMA FilesStep ==
  ASSUME "inbox" \notin Windows
  PROVE  FilesInv /\ (Attached!Next \/ UNCHANGED fileVars) => FilesInv'
<1> SUFFICES ASSUME FilesInv, Attached!Next \/ UNCHANGED fileVars PROVE FilesInv'
  OBVIOUS
<1>1. CASE UNCHANGED fileVars
  <2>1. UNCHANGED ThreadState /\ UNCHANGED JobState /\ UNCHANGED <<drain, manifest, disk, old, troubles>>
    BY <1>1 DEF fileVars, ThreadState, JobState
  <2>2. Attached!BytesAreKept'
    BY <2>1, BytesStay, UpkeepAssumption DEF Attached!Spoiled, FilesInv, FileTypes, ThreadState
  <2> QED BY <2>1, <2>2, OutsideStep DEF FilesInv, FileTypes, OldIsGone, DrainAt
<1>2. CASE Attached!Drains
  BY <1>2, ClaimKeeps, SeenKeeps, DownloadKeeps, OnwardKeeps, FailOwnKeeps, RecoverKeeps,
     KeepKeeps, HandKeeps,
     CompleteKeeps DEF Attached!Drains
<1>3. CASE Attached!Runs
  BY <1>3, JobKeeps, RetireKeeps DEF Attached!Runs
<1>4. CASE \/ Attached!Restart \/ Attached!Yield
           \/ \E m \in Attached!Messages : Attached!Post(m) \/ Attached!Requeue(m) \/ Attached!Age(m) \/ Attached!Sweep(m)
           \/ \E f \in Attachments : Attached!Spoil(f)
  BY <1>4, StopKeeps, PostKeeps, JobKeeps, SweepKeeps, SpoilKeeps
<1> QED BY <1>1, <1>2, <1>3, <1>4 DEF Attached!Next

-----------------------------------------------------------------------------
(* The parts of the service together. *)

\* A step of the service is a step of one of its parts, and the others stand still.
LEMMA PartsStep ==
  ASSUME [ServiceNext]_allVars
  PROVE  /\ [Next]_vars
         /\ Update!Next \/ UNCHANGED updateVars
         /\ Attached!Next \/ UNCHANGED fileVars
<1>1. CASE UNCHANGED allVars
  BY <1>1 DEF allVars
<1>2. CASE OfRunner(Next)
  BY <1>2 DEF OfRunner
<1>3. CASE OfUpdate(Update!Next)
  BY <1>3 DEF OfUpdate
<1>4. CASE OfFiles(Attached!Next)
  BY <1>4 DEF OfFiles
<1>5. CASE OfPast(Past!Next) \/ OfLong(Long!Next)
  BY <1>5 DEF OfPast, OfLong
<1> QED BY <1>1, <1>2, <1>3, <1>4, <1>5 DEF ServiceNext

\* At first every part is as it starts, whichever of them runs.
LEMMA PartsInit == Starts => IInv /\ ISpare /\ UpdateInv /\ FilesInv
<1> SUFFICES ASSUME Starts PROVE IInv /\ ISpare /\ UpdateInv /\ FilesInv
  OBVIOUS
<1>1. Init /\ Update!Init /\ Attached!Init
  BY DEF Starts
<1> QED BY <1>1, InitIInv, InitISpare, UpInit, FilesInit

\* For any number of people, requests, gates, messages and files, and for every death,
\* failure and loss: beside those whose caller or worker gave them up, one updater runs for
\* the requests at a time, and its worker waits for it or the request names it, also when
\* calls, the timer and workers meet (update-request.ts); no accepted file of a thread is forgotten, a
\* reply comes with what its row recovered, a job knows of every earlier file, and nothing
\* but faults takes bytes away (thread-attachment-recovery.ts, job-runner.ts). The hypothesis
\* leaves out bytes that go bad while the row of their message is there.
THEOREM UpkeepIsSafe ==
  ASSUME "inbox" \notin Windows
  PROVE  Service => []UpkeepSafety
<1> DEFINE Inv == UpdateInv /\ FilesInv
<1>1. Starts => Inv
  BY PartsInit
<1>2. Inv /\ [ServiceNext]_allVars => Inv'
  <2> SUFFICES ASSUME Inv, [ServiceNext]_allVars PROVE Inv'
    OBVIOUS
  <2>1. (Update!Next \/ UNCHANGED updateVars) /\ (Attached!Next \/ UNCHANGED fileVars)
    BY PartsStep
  <2> QED BY <2>1, UpStep, FilesStep
<1>3. Inv => UpkeepSafety
  BY UpIsSafe, FilesAreSafe DEF UpkeepSafety
<1> HIDE DEF Inv
<1> QED BY <1>1, <1>2, <1>3, PTL DEF Service

\* A file that leaves the catalog was bad.
RetiresRightly == \A f \in catalog \ catalog' : disk[f] # "whole"

\* Only Retire takes a file out of the catalog.
LEMMA FilesAreKept ==
  ASSUME Attached!Next \/ UNCHANGED fileVars
  PROVE  RetiresRightly
<1>1. CASE \E j \in Attached!Messages : \E f \in Attachments : Attached!Retire(j, f)
  BY <1>1 DEF Attached!Retire, Attached!Bad, RetiresRightly
<1>2. CASE catalog \subseteq catalog'
  BY <1>2 DEF RetiresRightly
<1>3. CASE Attached!Drains
  BY <1>2, <1>3 DEF Attached!Drains, Attached!Claim, Attached!UseCached, Attached!Download,
     Attached!Record,
     Attached!OwnDone, Attached!FailOwn, Attached!Recover, Attached!Keep, Attached!Miss, Attached!OldDone,
     Attached!HandLive, Attached!Refuse, Attached!Enqueue, Attached!Handed, Attached!Complete,
     Attached!threads, Attached!rows, Attached!jobs
<1>4. CASE Attached!Runs
  BY <1>1, <1>2, <1>4 DEF Attached!Runs, Attached!StartJob, Attached!LoseOwn, Attached!EndJob,
     Attached!threads
<1>5. CASE \/ Attached!Restart \/ Attached!Yield
           \/ \E m \in Attached!Messages : Attached!Post(m) \/ Attached!Requeue(m) \/ Attached!Age(m) \/ Attached!Sweep(m)
           \/ \E f \in Attachments : Attached!Spoil(f)
           \/ UNCHANGED fileVars
  BY <1>2, <1>5 DEF Attached!Restart, Attached!Yield, Attached!Post, Attached!Requeue,
     Attached!Age,
     Attached!Sweep, Attached!Spoil, Attached!threads, fileVars
<1> QED BY <1>3, <1>4, <1>5 DEF Attached!Next

\* No step of the service ends a runner at work but a forced stop (service-control.ts), gives
\* up an unsettled request but an old one, one a person asks anew for, one whose outcome came
\* after a look, one its own caller withdrew or one a withdrawn worker writes over
\* (update-request.ts), or takes a file out of the catalog whose bytes are as recorded
\* (job-runner.ts).
THEOREM ServiceIsKept ==
  ASSUME "slow" \notin Windows
  PROVE  Service => ServiceKept
<1> DEFINE Inv == IInv /\ ISpare /\ UpdateInv
<1>1. Starts => Inv
  BY PartsInit
<1>2. ASSUME Inv, [ServiceNext]_allVars
      PROVE  /\ Inv' /\ [WorkSpared]_vars
             /\ [GivesUpRightly]_(Update!vars) /\ [RetiresRightly]_(Attached!vars)
  <2>1. [Next]_vars /\ (Update!Next \/ UNCHANGED updateVars) /\ (Attached!Next \/ UNCHANGED fileVars)
    BY <1>2, PartsStep
  <2>2. IInv' /\ ISpare' /\ WorkSpared
    BY <1>2, <2>1, IInvStep, ISpareStep
  <2>3. UpdateInv'
    BY <1>2, <2>1, UpStep
  <2> QED BY <1>2, <2>1, <2>2, <2>3, RequestIsKept, FilesAreKept
<1> HIDE DEF Inv
<1>3. Service => [][WorkSpared]_vars /\ [][GivesUpRightly]_(Update!vars) /\ [][RetiresRightly]_(Attached!vars)
  BY <1>1, <1>2, PTL DEF Service
<1> QED BY <1>3 DEF ServiceKept, WorkIsSpared, WorkSpared, Update!RequestKept, GivesUpRightly,
           Attached!RetiresOnlyBad, RetiresRightly
=============================================================================
