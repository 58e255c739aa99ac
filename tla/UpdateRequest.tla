---------------------------- MODULE UpdateRequest -----------------------------
(***************************************************************************)
(* Asking an instance to update itself (update-request.ts, auto-update.ts  *)
(* and their callers in server.ts).  One file names the request; the       *)
(* gateway reserves it and starts a detached worker in a terminal session  *)
(* of its own, the worker starts a gate in another process group, the gate *)
(* waits for its registration in the file and only then runs the updater,  *)
(* which restarts the gateway.  The outcome is written before it is told,  *)
(* and whoever finds an unsettled file later starts the worker again.  The *)
(* updater itself is in ReleaseUpdate; here it holds the update lock for   *)
(* part of its life and ends somehow.  Workers, gates and gateways may die *)
(* between any two steps, and Slack may refuse what they post.             *)
(*                                                                         *)
(* The gateway is one process (its lock, server.ts) and one thread: no two *)
(* of its calls are between reading the file and acting on what they read  *)
(* (step "look") at a time, but workers and gates go on meanwhile, and     *)
(* while one call posts its acceptance every other call may act.           *)
(***************************************************************************)
EXTENDS Naturals, FiniteSets

CONSTANTS
  People,     \* messages of people that ask for an update
  Auto,       \* stands for the automatic update
  MaxIds,     \* bound: requests somebody remembers
  MaxGates,   \* bound: gates alive or remembered
  MaxChecks,  \* bound: automatic checks
  MaxTries,   \* attempts to tell the outcome to a person (3 in the code)
  MaxFaults   \* bound: deaths, failures, and meetings: of a call or the timer with an
              \* acceptance being posted, of a worker's write with a call at "look"

Msgs == People \cup {Auto}
Ids == 1 .. MaxIds
Gates == 1 .. MaxGates

VARIABLES
  file,      \* update-request.json
  worker,    \* the terminal session of the worker
  gates,     \* the gates and their updaters
  lock,      \* what holds update.lock: a gate, MaxGates + 1 for somebody else, or 0
  call,      \* requestUpdate for every message
  seen,      \* the file as the call at "look" read it
  reserved,  \* messages with a tombstone in the database
  auto,      \* auto-update-check.json and the check in progress
  up,        \* the gateway runs
  lost,      \* history: gates alive whose name was given up
  faults     \* bound used

vars == <<file, worker, gates, lock, call, seen, reserved, auto, up, lost, faults>>

Missing == [state |-> "none", id |-> 0, msg |-> Auto, gate |-> 0, outcome |-> FALSE,
            told |-> FALSE, old |-> FALSE]
Broken == [Missing EXCEPT !.state = "broken"]
Off == [step |-> "off", id |-> 0, gate |-> 0, copy |-> Missing, tries |-> 0,
        withdrawn |-> FALSE] \* history: its request was withdrawn by its own caller

GateLives(g) == g \in Gates /\ gates[g] # "none"
Living(some) == {g \in some : GateLives(g)}

TypeOK ==
  /\ file.state \in {"none", "broken", "whole"} /\ file.id \in 0 .. MaxIds
  /\ file.msg \in Msgs /\ file.gate \in 0 .. MaxGates
  /\ {file.outcome, file.told, file.old} \subseteq BOOLEAN
  /\ worker.step \in {"off", "begin", "handshake", "start", "running", "record", "notify"}
  /\ gates \in [Gates -> {"none", "waiting", "updating"}]
  /\ lock \in 0 .. MaxGates + 1
  /\ \A m \in Msgs : call[m].step \in {"idle", "look", "reread", "accepting", "duplicate"}
  /\ seen.state \in {"none", "broken", "whole"}
  /\ lost \subseteq Living(Gates)
  /\ reserved \subseteq People
  /\ auto.checks \in 0 .. MaxChecks /\ auto.step \in {"idle", "detecting"}
  /\ faults \in 0 .. MaxFaults

Init ==
  /\ file = Missing /\ seen = Missing /\ worker = Off /\ lock = 0 /\ up = TRUE
  /\ gates = [g \in Gates |-> "none"]
  /\ call = [m \in Msgs |-> [step |-> "idle", id |-> 0]]
  /\ lost = {}
  /\ reserved = {} /\ faults = 0
  /\ auto = [step |-> "idle", checks |-> 0, pending |-> 0]

Session == worker.step # "off"
Fresh == Ids \ ({file.id, seen.id, worker.id, auto.pending} \cup {call[m].id : m \in Msgs})
NewId == CHOOSE i \in Fresh : TRUE
FreshGates == {g \in Gates : ~GateLives(g)} \ {file.gate, seen.gate, worker.gate, worker.copy.gate}
NewGate == CHOOSE g \in FreshGates : TRUE
Idle == [step |-> "idle", id |-> 0]
Fault == faults < MaxFaults /\ faults' = faults + 1

\* The outcome was told, or telling it was given up for good, as an automatic one's is.
Settled(f) == f.told

\* A gate whose death is certain is struck off the file.
Struck(f) == IF f.gate # 0 /\ ~GateLives(f.gate) /\ ~Session THEN [f EXCEPT !.gate = 0] ELSE f

\* A worker, a registered gate, or any updater with the lock.
Busy(f) == Session \/ (f.gate # 0 /\ GateLives(f.gate)) \/ lock # 0

Launch(id) == worker' = [Off EXCEPT !.step = "begin", !.id = id]

At(step) == \E m \in Msgs : call[m].step = step

\* The gateway acts while an acceptance is being posted.
Meets == IF At("accepting") THEN Fault ELSE UNCHANGED faults

\* A worker writes the file: the call at "look" has read before, or reads what is written.
Writes(f) ==
  /\ file' = f
  /\ \/ At("look") /\ Fault /\ UNCHANGED seen
     \/ At("look") /\ seen' = f /\ UNCHANGED faults
     \/ ~At("look") /\ UNCHANGED <<seen, faults>>

-----------------------------------------------------------------------------
(* requestUpdate *)

\* The gateway's thread is not between a read of the file and its use.
Free == up /\ ~At("look")

\* The message and the file it is considered with.
Look(m) ==
  LET again == call[m].step = "idle" /\ file.state = "broken" IN
  /\ call' = [call EXCEPT ![m].step = IF again THEN "reread" ELSE "look"]
  /\ seen' = IF again THEN seen ELSE file
  /\ Meets

\* The file when the reservation is written: what was read was broken or is cleared, and
\* anything else that is there by now makes the exclusive creation fail.
Cleared ==
  CASE seen.state = "broken" -> Missing
    [] seen.state = "whole" /\ (file.id = seen.id \/ (~Settled(seen) /\ Struck(seen) # seen))
         -> Missing
    [] OTHER -> file

\* A duplicate is answered; the automatic check only remembers the request.
Answered(m, f) ==
  IF m \in People
  THEN call' = [call EXCEPT ![m].step = "duplicate"] /\ UNCHANGED auto
  ELSE /\ call' = [call EXCEPT ![m] = Idle]
       /\ auto' = [auto EXCEPT !.step = "idle", !.pending = f.id]

\* The reservation: the automatic one is started at once, a person's is posted first.
Reserve(m) ==
  IF Cleared # Missing
  THEN UNCHANGED <<file, worker>> /\ Answered(m, file)
  ELSE
  /\ Fresh # {}
  /\ LET new == [Missing EXCEPT !.state = "whole", !.id = NewId, !.msg = m] IN
     IF m \in People
     THEN /\ file' = new
          /\ call' = [call EXCEPT ![m] = [step |-> "accepting", id |-> NewId]]
          /\ UNCHANGED <<worker, auto>>
     ELSE /\ call' = [call EXCEPT ![m] = Idle]
          /\ CASE lock # 0  -> file' = new /\ UNCHANGED worker
               [] lock = 0 /\ ~Session -> file' = new /\ Launch(NewId)
               [] OTHER -> file' = Missing /\ UNCHANGED worker
          /\ auto' = [auto EXCEPT !.step = "idle",
                        !.pending = IF lock = 0 /\ Session THEN @ ELSE NewId]

\* The copy that was read is written back when its gate is struck off it.
Duplicate(m, f, start) ==
  /\ file' = IF f # seen THEN f ELSE file
  /\ IF start THEN Launch(f.id) ELSE UNCHANGED worker
  /\ Answered(m, f)

\* Background maintenance does not discard the result a person still waits for.
Yields(m, f) == m = Auto /\ f.outcome /\ ~f.old

\* The request that was read is finished with, or gives way to a new one.
Reserves(m) ==
  LET f == Struck(seen) IN
  CASE seen.state # "whole" -> seen.state = "broken" => ~Session
    [] seen.state = "whole" /\ Settled(seen) -> seen.msg # m \/ m \notin People
    [] OTHER -> /\ ~Yields(m, f) /\ ~Busy(f)
                /\ f.outcome \/ f.old
                /\ ~(f.outcome /\ f.msg = m /\ m \in People)

Consider(m) ==
  LET f == Struck(seen) IN
  CASE Reserves(m) -> Reserve(m)
    [] ~Reserves(m) /\ seen.state = "whole" /\ Settled(seen) -> Duplicate(m, seen, FALSE)
    [] ~Reserves(m) /\ seen.state = "whole" /\ ~Settled(seen) ->
         Duplicate(m, f, ~Busy(f) /\ (f.outcome => ~f.old))
    [] OTHER -> \* broken, and a worker runs
         /\ call' = [call EXCEPT ![m] = Idle]
         /\ auto' = IF m = Auto THEN [auto EXCEPT !.step = "idle"] ELSE auto
         /\ UNCHANGED <<file, worker>>

\* Slack delivers the message until the database holds its tombstone.
Deliver(m) ==
  /\ Free /\ m \in People \ reserved /\ call[m].step = "idle" /\ Look(m)
  /\ UNCHANGED <<file, worker, gates, lock, reserved, auto, up, lost>>

\* A file that does not parse is read once more before it is given up.
Reread(m) ==
  /\ Free /\ call[m].step = "reread" /\ Look(m)
  /\ UNCHANGED <<file, worker, gates, lock, reserved, auto, up, lost>>

\* What was read may be out of date: a gate registered since is then not looked at.
Overlooked == IF file # seen THEN Living({file.gate}) ELSE {}

Act(m) ==
  /\ up /\ call[m].step = "look" /\ Consider(m)
  /\ seen' = Missing
  /\ lost' = IF file' # file \/ worker' # worker THEN lost \cup Overlooked ELSE lost
  /\ UNCHANGED <<gates, lock, reserved, up, faults>>

\* The caller could not accept its request: the file is removed, whoever has been working
\* for it since.
Withdraw(id) ==
  /\ file' = IF file.id = id THEN Missing ELSE file
  /\ lost' = IF file.id = id
              THEN lost \cup Living({file.gate, IF worker.id = id THEN worker.gate ELSE 0})
              ELSE lost
  /\ worker' = IF file.id = id /\ worker.id = id THEN [worker EXCEPT !.withdrawn = TRUE]
               ELSE worker

\* The acceptance is posted: the worker starts, unless an updater runs that the
\* timer will wait for.  A session that is there already fails the request; a gate
\* that another worker left behind is not asked for.
Accepted(m) ==
  /\ Free /\ call[m].step = "accepting"
  /\ call' = [call EXCEPT ![m] = Idle]
  /\ IF lock = 0 /\ Session
     THEN Withdraw(call[m].id) /\ UNCHANGED reserved
     ELSE /\ IF lock = 0
             THEN /\ Launch(call[m].id)
                  /\ lost' = IF file.id = call[m].id THEN lost \cup Living({file.gate}) ELSE lost
             ELSE UNCHANGED <<worker, lost>>
          /\ reserved' = reserved \cup {m}
          /\ UNCHANGED file
  /\ UNCHANGED <<gates, lock, seen, auto, up, faults>>

DuplicateTold(m) ==
  /\ Free /\ call[m].step = "duplicate"
  /\ call' = [call EXCEPT ![m] = Idle] /\ reserved' = reserved \cup {m}
  /\ UNCHANGED <<file, worker, gates, lock, seen, auto, up, lost, faults>>

PostFails(m) ==
  /\ Free /\ call[m].step \in {"accepting", "duplicate"} /\ Fault
  /\ call' = [call EXCEPT ![m] = Idle]
  /\ IF call[m].step = "accepting" THEN Withdraw(call[m].id) ELSE UNCHANGED <<file, worker, lost>>
  /\ UNCHANGED <<gates, lock, seen, reserved, auto, up>>

-----------------------------------------------------------------------------
(* resumePendingUpdateWorker and the automatic check. *)

\* Mutant: only a request without an outcome is worth a worker.
OnlyUnfinished == file.state = "whole" /\ ~Session /\ lock = 0 /\ ~file.outcome

Resumable ==
  /\ file.state = "whole" /\ ~Settled(file) /\ ~Session
  /\ file.gate = 0 \/ (~GateLives(file.gate) /\ ~file.outcome)
  /\ lock = 0
  /\ file.outcome => ~file.old

\* The timer, which asks nobody whether the request was accepted yet.  What it strikes a
\* gate off is read again before it is written.
Resume ==
  /\ Free /\ Resumable
  /\ file' = Struck(file) /\ Launch(file.id)
  /\ Meets
  /\ UNCHANGED <<gates, lock, call, seen, reserved, auto, up, lost>>

\* The interval has passed.  The check is noted before the network is asked, so that a
\* failure is not repeated at once; a request that is still to run keeps its place.
AutoCheck ==
  /\ Free /\ auto.step = "idle" /\ call[Auto].step = "idle"
  /\ auto.checks < MaxChecks /\ lock = 0
  /\ ~(auto.pending # 0 /\ file.id = auto.pending /\ ~file.outcome)
  /\ auto' = [step |-> "detecting", checks |-> auto.checks + 1, pending |-> 0]
  /\ UNCHANGED <<file, worker, gates, lock, call, seen, reserved, up, lost, faults>>

\* Nothing new, switched off, or an updater that began meanwhile.
AutoEnds ==
  /\ Free /\ auto.step = "detecting" /\ call[Auto].step = "idle"
  /\ auto' = [auto EXCEPT !.step = "idle"]
  /\ UNCHANGED <<file, worker, gates, lock, call, seen, reserved, up, lost, faults>>

AutoEnqueue ==
  /\ Free /\ auto.step = "detecting" /\ call[Auto].step = "idle" /\ lock = 0 /\ Look(Auto)
  /\ UNCHANGED <<file, worker, gates, lock, reserved, auto, up, lost>>

-----------------------------------------------------------------------------
(* runUpdateWorker and executeUpdater *)

\* The request is read once; with an outcome there is only something to tell.
Begin ==
  /\ worker.step = "begin"
  /\ IF file.state # "whole" \/ file.id # worker.id \/ Settled(file)
     THEN worker' = Off /\ UNCHANGED gates
     ELSE IF file.outcome
          THEN worker' = [worker EXCEPT !.step = "notify", !.copy = file] /\ UNCHANGED gates
          ELSE /\ FreshGates # {}
               /\ worker' = [worker EXCEPT !.step = "handshake", !.copy = file, !.gate = NewGate]
               /\ gates' = [gates EXCEPT ![NewGate] = "waiting"]
  /\ UNCHANGED <<file, lock, call, seen, reserved, auto, up, lost, faults>>

\* Mutant: the gate is started without being registered.
Unregistered(f, g) == f

\* The worker goes on to record how it ended, which is new however old the request is.
Concludes ==
  worker' = [worker EXCEPT !.step = "record", !.copy = [@ EXCEPT !.outcome = TRUE, !.old = FALSE]]

\* The gate is written into the request as it stands now.
Registered(f, g) == [f EXCEPT !.gate = g]

Register ==
  /\ worker.step = "handshake"
  /\ IF file.state = "whole" /\ file.id = worker.id /\ ~file.outcome
     THEN Writes(Registered(file, worker.gate)) /\ worker' = [worker EXCEPT !.step = "start"]
     ELSE Concludes /\ UNCHANGED <<file, seen, faults>>
  /\ UNCHANGED <<gates, lock, call, reserved, auto, up, lost>>

\* The gate does not say who it is in time, or its pipe breaks; it ends by itself.
HandshakeFails ==
  /\ worker.step \in {"handshake", "start"} /\ Fault /\ Concludes
  /\ UNCHANGED <<file, gates, lock, call, seen, reserved, auto, up, lost>>

\* START: from here the updater lives on without its worker.
StartUpdater ==
  /\ worker.step = "start"
  /\ gates' = [gates EXCEPT ![worker.gate] = "updating"]
  /\ worker' = [worker EXCEPT !.step = "running"]
  /\ UNCHANGED <<file, lock, call, seen, reserved, auto, up, lost, faults>>

\* A gate that is not told to start within its time, or whose worker is gone, ends.
GateGivesUp(g) ==
  /\ gates[g] = "waiting"
  /\ worker.gate # g \/ worker.step \notin {"handshake", "start"}
  /\ gates' = [gates EXCEPT ![g] = "none"] /\ lost' = lost \ {g}
  /\ UNCHANGED <<file, worker, lock, call, seen, reserved, auto, up, faults>>

TakeLock(g) ==
  /\ gates[g] = "updating" /\ lock = 0 /\ lock' = g
  /\ UNCHANGED <<file, worker, gates, call, seen, reserved, auto, up, lost, faults>>

UpdaterEnds(g) ==
  /\ gates[g] = "updating" /\ gates' = [gates EXCEPT ![g] = "none"]
  /\ lost' = lost \ {g}
  /\ lock' = IF lock = g THEN 0 ELSE lock
  /\ UNCHANGED <<file, worker, call, seen, reserved, auto, up, faults>>

\* The gate has ended, by itself or because it was stopped at the worker's time limit.
GateExit ==
  /\ worker.step = "running" /\ ~GateLives(worker.gate) /\ Concludes
  /\ IF file.state = "whole" /\ file.id = worker.id /\ file.gate = worker.gate
     THEN Writes([file EXCEPT !.gate = 0]) ELSE UNCHANGED <<file, seen, faults>>
  /\ UNCHANGED <<gates, lock, call, reserved, auto, up, lost>>

\* At the time limit the signals could not be sent, or the end was not seen: the worker
\* gives up an updater that may live on.
TimesOut ==
  /\ worker.step = "running" /\ GateLives(worker.gate) /\ Fault /\ Concludes
  /\ lost' = lost \cup {worker.gate}
  /\ UNCHANGED <<file, gates, lock, call, seen, reserved, auto, up>>

\* The outcome is kept before anybody is told, in the request as it was first read.
Record ==
  /\ worker.step = "record" /\ worker' = [worker EXCEPT !.step = "notify"]
  /\ Writes(worker.copy)
  /\ UNCHANGED <<gates, lock, call, reserved, auto, up, lost>>

\* The outcome is told, or there is nobody's direct messages to tell an automatic one in.
Tell ==
  /\ worker.step = "notify" /\ worker' = Off
  /\ Writes([worker.copy EXCEPT !.told = TRUE])
  /\ UNCHANGED <<gates, lock, call, reserved, auto, up, lost>>

\* Slack refuses: an automatic outcome is tried once and then counts as told, a person's
\* is tried a few times.
TellFails ==
  /\ worker.step = "notify" /\ Fault
  /\ IF worker.copy.msg = Auto
     THEN worker' = Off /\ file' = [worker.copy EXCEPT !.told = TRUE]
     ELSE /\ worker' = IF worker.tries + 1 >= MaxTries THEN Off ELSE [worker EXCEPT !.tries = @ + 1]
          /\ UNCHANGED file
  /\ UNCHANGED <<gates, lock, call, seen, reserved, auto, up, lost>>

-----------------------------------------------------------------------------
(* Deaths, and what happens elsewhere. *)

WorkerDies ==
  /\ Session /\ Fault /\ worker' = Off
  /\ UNCHANGED <<file, gates, lock, call, seen, reserved, auto, up, lost>>

\* The gateway dies, between clearing and reserving and in the middle of the reservation
\* too, or is stopped by an update.
GatewayDies ==
  /\ up /\ up' = FALSE
  /\ \/ lock # 0 /\ UNCHANGED <<file, lost, faults>>
     \/ Fault /\ UNCHANGED <<file, lost>>
     \/ /\ Fault /\ file' \in {Missing, Broken} /\ lost' = lost \cup Overlooked
        /\ \E m \in Msgs : call[m].step = "look" /\ Reserves(m) /\ Cleared = Missing
  /\ call' = [m \in Msgs |-> Idle] /\ seen' = Missing
  /\ auto' = [auto EXCEPT !.step = "idle"]
  /\ UNCHANGED <<worker, gates, lock, reserved>>

GatewayStarts ==
  /\ ~up /\ up' = TRUE
  /\ UNCHANGED <<file, worker, gates, lock, call, seen, reserved, auto, lost, faults>>

\* Somebody updates by hand.
ManualUpdate ==
  /\ lock = 0 /\ Fault /\ lock' = MaxGates + 1
  /\ UNCHANGED <<file, worker, gates, call, seen, reserved, auto, up, lost>>

ManualEnds ==
  /\ lock = MaxGates + 1 /\ lock' = 0
  /\ UNCHANGED <<file, worker, gates, call, seen, reserved, auto, up, lost, faults>>

\* Six hours pass.
Ages ==
  /\ file.state = "whole" /\ ~file.old /\ Fault
  /\ file' = [file EXCEPT !.old = TRUE]
  /\ UNCHANGED <<worker, gates, lock, call, seen, reserved, auto, up, lost>>

GatewayStep ==
  \/ Resume \/ AutoEnds \/ GatewayStarts
  \/ \E m \in Msgs : Deliver(m) \/ Reread(m) \/ Act(m) \/ Accepted(m) \/ DuplicateTold(m)

WorkerStep ==
  \/ Begin \/ Register \/ StartUpdater \/ GateExit \/ Record \/ Tell
  \/ ManualEnds \/ \E g \in Gates : GateGivesUp(g) \/ UpdaterEnds(g)

Next ==
  \/ GatewayStep \/ WorkerStep
  \/ AutoCheck \/ AutoEnqueue \/ HandshakeFails \/ TimesOut \/ TellFails \/ WorkerDies
  \/ GatewayDies \/ ManualUpdate \/ Ages
  \/ \E g \in Gates : TakeLock(g)
  \/ \E m \in Msgs : PostFails(m)

\* Slack delivers again, the timers go off, processes go on.
Spec ==
  /\ Init /\ [][Next]_vars
  /\ WF_vars(GatewayStep) /\ WF_vars(WorkerStep)

-----------------------------------------------------------------------------
(* Properties. *)

\* However often the gateway and the worker were replaced, and however requests, the
\* timer and the automatic check meet, one updater runs at a time beside those that were
\* given up.
OneUpdater == Cardinality({g \in Gates : gates[g] = "updating"} \ lost) <= 1

\* An updater that was not given up can be found: its worker waits for it, or the file
\* names it.
Findable ==
  \A g \in Gates \ lost : gates[g] = "updating" =>
    (worker.step = "running" /\ worker.gate = g) \/ file.gate = g

Safety == TypeOK /\ OneUpdater /\ Findable

\* A request disappears unsettled only if it is six hours old, if a person asks anew when
\* all that is left is to tell its outcome, if that outcome was written after the look of
\* whoever asks, by the caller who could not accept it, or under a worker whose own request
\* was withdrawn so; and only that caller takes it from a worker.
RequestKept ==
  [][file.state = "whole" /\ ~Settled(file) /\ file'.id # file.id
     => \/ \E m \in People : call[m].step = "accepting" /\ call[m].id = file.id
                               /\ call'[m] = Idle
        \/ worker.withdrawn /\ worker.step \in {"record", "notify"} /\ file'.id = worker.id
        \/ /\ ~(Session /\ worker.id = file.id)
           /\ \/ file.old
              \/ file.outcome /\ \E m \in People : call[m].step = "look"
              \/ file.outcome /\ At("look") /\ ~(seen.id = file.id /\ seen.outcome)]_vars

\* What a test says of it (update-request.test.ts:687): the worker is started after the
\* acceptance was posted.  The code starts it for a second request, and at the timer's
\* next tick, while the first caller is still posting; that caller then finds a session,
\* fails, and removes the request its worker works for.
StartedAfterAcceptance ==
  [][worker.step = "off" /\ worker'.step = "begin"
     => \A m \in People : call'[m] # [step |-> "accepting", id |-> worker'.id]]_vars

\* Every person is heard, and the last request ends told, or too old to be told.
Quiet ==
  /\ People \subseteq reserved
  /\ file.state = "whole" => Settled(file) \/ (file.old /\ file.outcome)
EveryRequestSettles == <>[]Quiet
=============================================================================
