------------------------------ MODULE MCService ------------------------------
(***************************************************************************)
(* What the service does beside running jobs, in one state space: the      *)
(* launch and the stops of the runner, the requests to update it, the      *)
(* files it keeps for a thread and the history it keeps of one.  The first *)
(* state chooses which of them runs, and the others stay in their initial  *)
(* states.                                                                 *)
(*                                                                         *)
(* Two files come with the first of three messages.  The history has two   *)
(* scenes: two jobs of a thread, the second with a reply, while tombstones *)
(* expire, and four, where a job can be passed by more than the history    *)
(* keeps.                                                                  *)
(***************************************************************************)
EXTENDS RunnerService

CONSTANTS People, Automatic, MaxIds, MaxGates, MaxChecks, MaxTries, MaxFailures, \* Update
          f1, f2, MaxMessages, Attachments, MessageOf, MaxTroubles,       \* Attached
          Replied, MaxHistory, Retention, Tombstones, MaxTime, MaxDeaths  \* Past

\* The automatic update is nobody's message, and every file came with one.
ASSUME UpkeepAssumption ==
  /\ MaxIds \in Nat /\ MaxGates \in Nat /\ MaxChecks \in Nat /\ MaxTries \in Nat
  /\ MaxFailures \in Nat /\ MaxMessages \in Nat /\ MaxTroubles \in Nat
  /\ Automatic \notin People
  /\ IsFiniteSet(Attachments) /\ MessageOf \in [Attachments -> 1 .. MaxMessages]

Where == [f \in {f1, f2} |-> 1]

VARIABLES
  part,
  file, worker, gates, lock, call, seen, reserved, auto, up, lost, failures,       \* Update
  mail, tries, bound, manifest, disk, catalog, pending, recovered, retired, task,
  files, notes, into, given, refused, old, drain, helped, troubles,                \* Attached
  now, done, at, owed, archive, omitted, through, counted, snapshot, tomb, dirs,
  touched, sweep, deaths                                                                    \* Past

Update == INSTANCE UpdateRequest WITH Auto <- Automatic, faults <- failures, MaxFaults <- MaxFailures
Attached == INSTANCE ThreadFiles WITH N <- MaxMessages, Files <- Attachments, Message <- MessageOf,
                            row <- mail, job <- task, op <- drain,
                            faults <- troubles, MaxFaults <- MaxTroubles
Past == INSTANCE ThreadHistory WITH N <- 2, job <- done, faults <- deaths, MaxFaults <- MaxDeaths
Long == INSTANCE ThreadHistory WITH N <- 4, MaxTime <- 1, Replied <- {}, job <- done,
                            faults <- deaths, MaxFaults <- 0

updateVars == <<file, worker, gates, lock, call, seen, reserved, auto, up, lost, failures>>
fileVars == <<mail, tries, bound, manifest, disk, catalog, pending, recovered, retired, task, files,
              notes, into, given, refused, old, drain, helped, troubles>>
pastVars == <<now, done, at, owed, archive, omitted, through, counted, snapshot, tomb, dirs,
              touched, sweep, deaths>>
allVars == <<part, vars, updateVars, fileVars, pastVars>>

OfRunner(A) == part = "runner" /\ A /\ UNCHANGED <<part, updateVars, fileVars, pastVars>>
OfUpdate(A) == part = "update" /\ A /\ UNCHANGED <<part, vars, fileVars, pastVars>>
OfFiles(A) == part = "files" /\ A /\ UNCHANGED <<part, vars, updateVars, pastVars>>
OfPast(A) == part = "past" /\ A /\ UNCHANGED <<part, vars, updateVars, fileVars>>
OfLong(A) == part = "long" /\ A /\ UNCHANGED <<part, vars, updateVars, fileVars>>

Starts == part \in {"runner", "update", "files", "past", "long"}
          /\ Init /\ Update!Init /\ Attached!Init
          /\ IF part = "long" THEN Long!Init ELSE Past!Init

FairOne == OfRunner(LauncherStep) \/ OfUpdate(Update!GatewayStep)
           \/ OfFiles(Attached!Drains) \/ OfPast(Past!Maintain)
FairTwo == OfRunner(OpStep) \/ OfUpdate(Update!WorkerStep) \/ OfFiles(Attached!Runs)

ServiceNext == \/ OfRunner(Next) \/ OfUpdate(Update!Next)
               \/ OfFiles(Attached!Next) \/ OfPast(Past!Next) \/ OfLong(Long!Next)

Service == Starts /\ [][ServiceNext]_allVars
           /\ WF_allVars(FairOne) /\ WF_allVars(FairTwo)
           /\ \A g \in Runners : WF_allVars(OfRunner(RunnerStep(g)))

\* The safety of the parts beside the runner's, which is Safety of RunnerService: one
\* updater at a time that can be found, and no accepted file forgotten.
UpkeepSafety == Update!Safety /\ Attached!Safety

\* What a job is shown of its thread accounts for every earlier job, and what is removed
\* of settled jobs nobody needs any more.
HistorySafety == IF part = "long" THEN Long!Safety ELSE Past!Safety

\* What no step may do: end a runner at work, give up a request unsettled, or take a file
\* out of the catalog whose bytes are as recorded.
ServiceKept == WorkIsSpared /\ Update!RequestKept /\ Attached!RetiresOnlyBad

\* The number of older jobs a job is told of is not larger than theirs, as it is worded.
HistoryCountsOlder == IF part = "long" THEN Long!OmittedAreOlder ELSE Past!OmittedAreOlder

\* The worker of an update starts after its request was accepted, as a test has it.
UpdateStartsAccepted == Update!StartedAfterAcceptance

\* Each part comes to rest: every operation ends with a runner in its loop where there
\* should be one (Served), every request is settled (EveryRequestSettles), every message
\* with files is handed over or refused, and no directory of a pruned job stays, which the
\* scene of two jobs is for.
Settles == <>[](CASE part = "runner" -> Quiet
                  [] part = "update" -> Update!Quiet
                  [] part = "files" -> Attached!Quiet
                  [] part = "past" -> Past!Quiet
                  [] part = "long" -> TRUE)
=============================================================================
