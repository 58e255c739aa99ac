------------------------ MODULE ReleaseUpdateProofs ------------------------
(***************************************************************************)
(* Theorems about ReleaseUpdate: a journal goes only with its switch       *)
(* decided, and no updater stops a runner that works, for every number of  *)
(* updaters and releases and wherever they die.                            *)
(***************************************************************************)
EXTENDS ReleaseUpdate, TLAPS

(* The inductive invariant.                                                *)

Memory == [at : Places, recovers : BOOLEAN, candidate : Releases,
           tx : Transaction \cup {None}, back : BOOLEAN]

\* The phase the journal names while an updater is at a place of the switch.
Recorded(u) ==
  IF updater[u].back THEN "rolling-back"
  ELSE IF updater[u].at \in {"stop", "bridge", "stopped"} THEN "prepared"
  ELSE IF updater[u].at \in {"install", "installing", "pin", "pinned"} THEN "stopped"
  ELSE IF updater[u].at = "clear" THEN "healthy" ELSE "activated"

\* The lock is held exactly by whoever is past it.
Before    == {"off", "ready", "locking"}
Holds(u)  == updater[u].at \notin Before <=> lock = u
Exclusive == \A u \in Updaters : Holds(u)

\* The journal names the switch an updater is in.
Named(u) ==
  /\ journal # None /\ journal.phase = Recorded(u)
  /\ journal.previous = updater[u].tx.previous
  /\ journal.candidate = updater[u].tx.candidate

\* What an updater remembers is what the journal says.
Remembered(u) ==
  /\ updater[u].at \in {"ready", "locking", "locked", "observe", "drain", "drained"}
       => ~updater[u].back
  /\ updater[u].at \in {"observe", "drain", "drained"} => journal = None
  /\ updater[u].at \in {"drain", "drained", "undo"} => updater[u].tx # None
  /\ updater[u].at = "undo" => updater[u].back /\ journal # None
  /\ updater[u].at \in Switching => updater[u].tx # None /\ Named(u)
  /\ updater[u].at \in {"pinned", "start", "health", "healthy", "clear"} => pin = Goal(u)
  /\ updater[u].at \in {"pinned", "healthy", "stopped"} => ~updater[u].back

\* The files by themselves: the intent waits, and a healthy journal has its pin.
Filed ==
  /\ intent # None => intent.phase = "waiting"
  /\ journal # None => journal.phase # "waiting"
  /\ journal # None /\ journal.phase = "healthy" => pin = journal.candidate

Journalled == Exclusive /\ Filed /\ \A u \in Updaters : Remembered(u)

\* A job is started only where no updater can be past its wait.
Quiet ==
  /\ runner = None => worker = "idle"
  /\ worker \in {"claimed", "working"} => row = "running"
  /\ worker = "working" => journal = None /\ \A u \in Updaters : updater[u].at # "drained"

Consistent == TypeOK /\ Journalled /\ Quiet

-----------------------------------------------------------------------------

\* The invariant holds at first.
LEMMA InitConsistent == Init => Consistent
<1> SUFFICES ASSUME Init PROVE Consistent
    OBVIOUS
<1> USE ReleaseAssumption DEF Init, Idle
<1>1. 0 \in Releases /\ 0 # None /\ 0 \in 0..MaxRequests /\ 0 \in 0..MaxFaults
  BY DEF Releases
<1>2. updater \in [Updaters -> Memory]
  BY <1>1 DEF Memory, Places
<1>3. TypeOK
  BY <1>1, <1>2 DEF TypeOK, Memory
<1>4. Journalled
  BY DEF Journalled, Exclusive, Holds, Before, Filed, Remembered, Switching
<1>5. Quiet
  BY <1>1 DEF Quiet
<1> QED BY <1>3, <1>4, <1>5 DEF Consistent

-----------------------------------------------------------------------------
(* A step of one updater.                                                  *)

\* Going somewhere changes the place and nothing else.
LEMMA Goes ==
  ASSUME TypeOK, NEW u \in Updaters, NEW place \in Places, Go(u, place)
  PROVE  /\ updater' \in [Updaters -> Memory]
         /\ updater'[u].at = place /\ updater'[u].back = updater[u].back
         /\ updater'[u].tx = updater[u].tx /\ updater'[u].candidate = updater[u].candidate
         /\ \A v \in Updaters \ {u} : updater'[v] = updater[v]
BY DEF TypeOK, Go, Memory

LEMMA GoesBackTo ==
  ASSUME TypeOK, NEW u \in Updaters, NEW t \in Transaction, GoesBack(u, t)
  PROVE  /\ updater' \in [Updaters -> Memory]
         /\ updater'[u].at = "undo" /\ updater'[u].tx = t /\ updater'[u].back
         /\ \A v \in Updaters \ {u} : updater'[v] = updater[v]
<1>1. updater \in [Updaters -> Memory] /\ updater[u] \in Memory
  BY DEF TypeOK, Memory
<1>2. [updater[u] EXCEPT !.at = "undo", !.tx = t, !.back = TRUE] \in Memory
  BY <1>1 DEF Memory, Places
<1> QED BY <1>1, <1>2 DEF GoesBack

LEMMA EndsIdle ==
  ASSUME TypeOK, NEW u \in Updaters, Ends(u)
  PROVE  /\ updater' \in [Updaters -> Memory]
         /\ updater'[u] = Idle
         /\ \A v \in Updaters \ {u} : updater'[v] = updater[v]
BY ReleaseAssumption DEF TypeOK, Ends, Idle, Memory, Places, Releases

\* The others wait for the lock, so what the holder changes is not theirs.
LEMMA OthersKeep ==
  ASSUME Journalled, NEW u \in Updaters,
         \A v \in Updaters \ {u} : updater'[v] = updater[v],
         \/ lock = u /\ lock' \in {u, None}
         \/ lock = None /\ lock' = u /\ UNCHANGED <<journal, pin>>
         \/ UNCHANGED <<lock, journal, pin>>,
         Holds(u)', Remembered(u)', Filed',
         None \notin Updaters
  PROVE  Journalled'
<1>1. ASSUME NEW v \in Updaters, v # u PROVE Holds(v)' /\ Remembered(v)'
  <2>1. updater'[v] = updater[v]
    BY <1>1
  <2>2. Holds(v) /\ Remembered(v)
    BY DEF Journalled, Exclusive
  <2>3. Holds(v)'
    BY <1>1, <2>1, <2>2 DEF Holds
  <2>4. CASE updater[v].at \in Before
    BY <2>1, <2>2, <2>3, <2>4 DEF Before, Remembered, Switching
  <2>5. CASE updater[v].at \notin Before
    <3>1. lock = v
      BY <2>2, <2>5 DEF Holds
    <3>2. UNCHANGED <<journal, pin>>
      BY <1>1, <3>1
    <3> QED BY <2>1, <2>2, <2>3, <3>2 DEF Remembered, Named, Recorded, Goal
  <2> QED BY <2>3, <2>4, <2>5
<1> QED BY <1>1 DEF Journalled, Exclusive

\* What an updater's step has to show: its own types, its memory, the files, and
\* that a journal appears, or the wait ends, only where nobody works.
LEMMA Advances ==
  ASSUME Consistent, TypeOK', NEW u \in Updaters,
         \A v \in Updaters \ {u} : updater'[v] = updater[v],
         \/ lock = u /\ lock' \in {u, None}
         \/ lock = None /\ lock' = u /\ UNCHANGED <<journal, pin>>
         \/ UNCHANGED <<lock, journal, pin>>,
         Holds(u)', Remembered(u)', Filed',
         worker' = "idle" \/ UNCHANGED <<runner, worker, row>>,
         journal' # None => journal # None \/ updater[u].at = "drained",
         updater'[u].at = "drained" => updater[u].at = "drained" \/ row # "running"
  PROVE  Consistent'
<1>1. Journalled'
  BY ReleaseAssumption, OthersKeep DEF Consistent
<1>2. Quiet'
  <2>1. CASE worker' = "idle"
    BY <2>1 DEF Quiet
  <2>2. CASE UNCHANGED <<runner, worker, row>>
    <3>1. worker' = "working" => journal' = None
      BY <2>2 DEF Consistent, Quiet
    <3>2. ASSUME worker' = "working", NEW v \in Updaters PROVE updater'[v].at # "drained"
      BY <2>2, <3>2 DEF Consistent, Quiet
    <3> QED BY <2>2, <3>1, <3>2 DEF Consistent, Quiet
  <2> QED BY <2>1, <2>2
<1> QED BY <1>1, <1>2 DEF Consistent

\* Before the lock, and with it while the instance still works.
LEMMA ApproachKeeps ==
  ASSUME Consistent, NEW u \in Updaters,
         Update(u) \/ Recover(u) \/ LookFirst(u) \/ Acquire(u) \/ Release(u)
  PROVE  Consistent'
<1> USE ReleaseAssumption, NoneAssumption DEF At, disk, services, queue
<1>0. /\ TypeOK /\ Holds(u) /\ Remembered(u) /\ Filed
      /\ updater \in [Updaters -> Memory] /\ updater[u] \in Memory
  BY DEF Consistent, Journalled, Exclusive, TypeOK, Memory
<1>1. CASE Update(u) \/ Recover(u)
  <2>1. PICK m \in Memory : /\ updater' = [updater EXCEPT ![u] = m]
                            /\ m.at = "ready" /\ ~m.back
    <3>1. CASE Update(u)
      <4> DEFINE m == [Idle EXCEPT !.at = "ready", !.candidate = head]
      <4>1. m \in Memory /\ m.at = "ready" /\ ~m.back
        BY <1>0 DEF Memory, Places, Idle, TypeOK
      <4> QED BY <3>1, <4>1 DEF Update
    <3>2. CASE Recover(u)
      <4>1. Pending \in Transaction
        BY <1>0, <3>2 DEF Recover, Pending, TypeOK
      <4>2. Pending.candidate \in Releases
        BY <4>1 DEF Transaction
      <4> DEFINE m == [Idle EXCEPT !.at = "ready", !.recovers = TRUE, !.candidate = Pending.candidate]
      <4>3. m \in Memory /\ m.at = "ready" /\ ~m.back
        BY <4>2 DEF Memory, Places, Idle
      <4> QED BY <3>2, <4>3 DEF Recover
    <3> QED BY <1>1, <3>1, <3>2
  <2>2. /\ updater' \in [Updaters -> Memory] /\ updater'[u] = m
        /\ \A v \in Updaters \ {u} : updater'[v] = updater[v]
    BY <1>0, <2>1
  <2>3. UNCHANGED <<disk, services, queue, head, faults>> /\ updater[u].at = "off"
    BY <1>1 DEF Update, Recover
  <2>4. TypeOK' /\ Holds(u)' /\ Remembered(u)' /\ Filed'
    BY <1>0, <2>1, <2>2, <2>3 DEF TypeOK, Memory, Holds, Before, Remembered, Filed, Switching
  <2> QED BY <2>2, <2>3, <2>4, Advances, <2>1
<1>2. CASE LookFirst(u)
  <2>1. CASE Ends(u)
    <3>1. TypeOK' /\ Holds(u)' /\ Remembered(u)' /\ Filed'
      BY <1>0, <1>2, <2>1, EndsIdle DEF LookFirst, TypeOK, Memory, Idle, Holds, Before, Remembered, Filed, Switching
    <3> QED BY <1>0, <1>2, <2>1, <3>1, EndsIdle, Advances DEF LookFirst, Idle
  <2>2. CASE Go(u, "locking")
    <3>1. "locking" \in Places
      BY DEF Places
    <3>2. TypeOK' /\ Holds(u)' /\ Remembered(u)' /\ Filed'
      BY <1>0, <1>2, <2>2, <3>1, Goes DEF LookFirst, TypeOK, Memory, Holds, Before, Remembered, Filed, Switching
    <3> QED BY <1>0, <1>2, <2>2, <3>1, <3>2, Goes, Advances DEF LookFirst, Memory
  <2> QED BY <1>2, <2>1, <2>2 DEF LookFirst
<1>3. CASE Acquire(u)
  <2>1. "locked" \in Places
    BY DEF Places
  <2>2. TypeOK' /\ Holds(u)' /\ Remembered(u)' /\ Filed'
    BY <1>0, <1>3, <2>1, Goes DEF Acquire, TypeOK, Memory, Holds, Before, Remembered, Filed, Switching
  <2> QED BY <1>0, <1>3, <2>1, <2>2, Goes, Advances DEF Acquire, Memory
<1>4. CASE Release(u)
  <2>1. TypeOK' /\ Holds(u)' /\ Remembered(u)' /\ Filed'
    BY <1>0, <1>4, EndsIdle DEF Release, TypeOK, Memory, Idle, Holds, Before, Remembered, Filed, Switching
  <2>2. lock = u
    BY <1>0, <1>4 DEF Release, Holds, Before
  <2> QED BY <1>0, <1>4, <2>1, <2>2, EndsIdle, Advances DEF Release, Idle
<1> QED BY <1>1, <1>2, <1>3, <1>4

\* With the lock, up to the first record of the switch.
LEMMA WaitKeeps ==
  ASSUME Consistent, NEW u \in Updaters, Find(u) \/ Observe(u) \/ Drain(u)
  PROVE  Consistent'
<1> USE ReleaseAssumption, NoneAssumption DEF At, disk, services, queue
<1>0. /\ TypeOK /\ Holds(u) /\ Remembered(u) /\ Filed /\ Quiet
      /\ updater \in [Updaters -> Memory] /\ updater[u] \in Memory
  BY DEF Consistent, Journalled, Exclusive, TypeOK, Memory
<1>1. lock = u
  BY <1>0 DEF Find, FindNothing, FindIntent, FindSettled, FindUnfinished, Observe,
              Drain, Drained, DrainRecovers, DrainGivesUp, Holds, Before
<1>2. /\ "observe" \in Places /\ "release" \in Places /\ "drained" \in Places /\ "drain" \in Places
  BY DEF Places
<1>3. /\ journal # None => Pending = journal
      /\ journal = None => Pending = intent
  BY DEF Pending
<1>4. CASE FindNothing(u)
  <2>1. journal = None
    BY <1>0, <1>3, <1>4 DEF FindNothing, Filed
  <2>2. TypeOK' /\ Holds(u)' /\ Remembered(u)' /\ Filed'
    BY <1>0, <1>1, <1>2, <1>4, <2>1, Goes DEF FindNothing, TypeOK, Memory, Holds, Before, Remembered, Filed, Switching
  <2> QED BY <1>0, <1>1, <1>2, <1>4, <2>2, Goes, Advances DEF FindNothing
<1>5. CASE FindIntent(u)
  <2>1. TypeOK' /\ Holds(u)' /\ Remembered(u)' /\ Filed'
    BY <1>0, <1>1, <1>2, <1>5, Goes DEF FindIntent, TypeOK, Memory, Holds, Before, Remembered, Filed, Switching
  <2> QED BY <1>0, <1>1, <1>2, <1>5, <2>1, Goes, Advances DEF FindIntent
<1>6. CASE FindSettled(u)
  <2>1. TypeOK' /\ Holds(u)' /\ Remembered(u)' /\ Filed'
    BY <1>0, <1>1, <1>2, <1>6, Goes DEF FindSettled, TypeOK, Memory, Holds, Before, Remembered, Filed, Switching
  <2> QED BY <1>0, <1>1, <1>2, <1>6, <2>1, Goes, Advances DEF FindSettled
<1>7. CASE FindUnfinished(u)
  <2>1. journal # None /\ Pending = journal /\ Pending \in Transaction
    BY <1>0, <1>3, <1>7 DEF FindUnfinished, Filed, TypeOK
  <2>2. faults' \in 0..MaxFaults
    BY <1>0, <1>7 DEF FindUnfinished, Fault, TypeOK
  <2>3. TypeOK' /\ Holds(u)' /\ Remembered(u)' /\ Filed'
    BY <1>0, <1>1, <1>7, <2>1, <2>2, GoesBackTo
       DEF FindUnfinished, TypeOK, Memory, Holds, Before, Remembered, Filed, Switching
  <2> QED BY <1>0, <1>1, <1>7, <2>1, <2>3, GoesBackTo, Advances DEF FindUnfinished
<1>8. CASE Observe(u)
  <2>1. CASE pin = updater[u].candidate
    <3>1. TypeOK' /\ Holds(u)' /\ Remembered(u)' /\ Filed'
      BY <1>0, <1>1, <1>2, <1>8, <2>1, Goes DEF Observe, TypeOK, Memory, Holds, Before, Remembered, Filed, Switching
    <3> QED BY <1>0, <1>1, <1>2, <1>8, <2>1, <3>1, Goes, Advances DEF Observe
  <2>2. CASE pin # updater[u].candidate
    <3> DEFINE t == [phase |-> "waiting", previous |-> pin, candidate |-> updater[u].candidate,
                     running |-> Running, down |-> gateway = None]
               m == [updater[u] EXCEPT !.at = "drain", !.tx = t]
    <3>1. t \in Transaction
      BY <1>0 DEF Transaction, Phases, Running, TypeOK, Memory
    <3>2. m \in Memory /\ m.at = "drain" /\ m.back = updater[u].back /\ m.tx = t
      BY <1>0, <1>2, <3>1 DEF Memory
    <3>3. intent' = t /\ updater' = [updater EXCEPT ![u] = m]
      BY <1>8, <2>2 DEF Observe
    <3>4. t.phase = "waiting" /\ t # None
      BY <3>1
    <3> HIDE DEF t, m
    <3>5. /\ updater' \in [Updaters -> Memory] /\ updater'[u] = m
          /\ \A v \in Updaters \ {u} : updater'[v] = updater[v]
      BY <1>0, <3>2, <3>3
    <3>6. TypeOK' /\ Holds(u)' /\ Remembered(u)' /\ Filed'
      BY <1>0, <1>1, <1>8, <3>1, <3>2, <3>3, <3>4, <3>5
         DEF Observe, TypeOK, Memory, Holds, Before, Remembered, Filed, Switching
    <3> QED BY <1>0, <1>1, <1>8, <3>2, <3>5, <3>6, Advances DEF Observe
  <2> QED BY <2>1, <2>2
<1>9. CASE Drained(u)
  <2>1. TypeOK' /\ Holds(u)' /\ Remembered(u)' /\ Filed'
    BY <1>0, <1>1, <1>2, <1>9, Goes DEF Drained, TypeOK, Memory, Holds, Before, Remembered, Filed, Switching
  <2> QED BY <1>0, <1>1, <1>2, <1>9, <2>1, Goes, Advances DEF Drained
<1>10. CASE DrainRecovers(u)
  <2>1. TypeOK' /\ Holds(u)' /\ Remembered(u)' /\ Filed'
    BY <1>0, <1>10 DEF DrainRecovers, TypeOK, Holds, Remembered, Named, Recorded, Goal, Filed
  <2> QED BY <1>0, <1>10, <2>1, Advances DEF DrainRecovers, Quiet
<1>11. CASE DrainGivesUp(u)
  <2>1. TypeOK' /\ Holds(u)' /\ Remembered(u)' /\ Filed'
    BY <1>0, <1>1, <1>2, <1>11, Goes DEF DrainGivesUp, TypeOK, Memory, Holds, Before, Remembered, Filed, Switching
  <2> QED BY <1>0, <1>1, <1>2, <1>11, <2>1, Goes, Advances DEF DrainGivesUp
<1> QED BY <1>4, <1>5, <1>6, <1>7, <1>8, <1>9, <1>10, <1>11 DEF Find, Drain

\* A record keeps the switch and names its phase.
LEMMA SaveRecords ==
  ASSUME TypeOK, NEW u \in Updaters, Remembered(u),
         NEW from \in Switching \cup {"drained", "undo"}, NEW phase \in Phases, NEW to \in Places,
         Save(u, from, phase, to)
  PROVE  /\ journal' \in Transaction /\ journal' # None /\ journal'.phase = phase
         /\ journal'.previous = updater[u].tx.previous
         /\ journal'.candidate = updater[u].tx.candidate
         /\ journal'.running = updater[u].tx.running /\ journal'.down = updater[u].tx.down
         /\ intent' = None /\ updater[u].tx \in Transaction
<1>1. updater[u].tx \in Transaction
  BY DEF TypeOK, Save, At, Remembered
<1>2. /\ [updater[u].tx EXCEPT !.phase = phase] \in Transaction
      /\ [updater[u].tx EXCEPT !.phase = phase].phase = phase
      /\ [updater[u].tx EXCEPT !.phase = phase].previous = updater[u].tx.previous
      /\ [updater[u].tx EXCEPT !.phase = phase].candidate = updater[u].tx.candidate
      /\ [updater[u].tx EXCEPT !.phase = phase].running = updater[u].tx.running
      /\ [updater[u].tx EXCEPT !.phase = phase].down = updater[u].tx.down
  BY <1>1 DEF Transaction
<1> QED BY <1>1, <1>2, NoneAssumption DEF Save

\* The steps that record a phase.
LEMMA SavesKeep ==
  ASSUME Consistent, NEW u \in Updaters, Saves(u) \/ Undo(u)
  PROVE  Consistent' /\ journal' # None
<1> USE ReleaseAssumption, NoneAssumption DEF disk, services, queue
<1>0. /\ TypeOK /\ Holds(u) /\ Remembered(u) /\ Filed /\ Quiet
      /\ updater \in [Updaters -> Memory] /\ updater[u] \in Memory
  BY DEF Consistent, Journalled, Exclusive, TypeOK, Memory
<1>1. StartOrNot(u) \in {"start", "clear", "healthy"}
  BY DEF StartOrNot, AfterServices
<1>2. PICK from \in Switching \cup {"drained", "undo"}, phase \in Phases, to \in Switching :
        /\ Save(u, from, phase, to)
        /\ <<from, phase, to>> \in
             { <<"drained", "prepared", "stop">>, <<"stopped", "stopped", "install">>,
               <<"pinned", "activated", StartOrNot(u)>>, <<"healthy", "healthy", "clear">>,
               <<"undo", "rolling-back", "stop">> }
  BY <1>1 DEF Saves, Undo, Switching, Phases
<1>3. updater[u].at = from /\ Go(u, to) /\ to \in Places
      /\ UNCHANGED <<pin, installed, lock, services, queue, head, faults>>
  BY <1>2 DEF Save, At, Places
<1>4. /\ journal' \in Transaction /\ journal' # None /\ journal'.phase = phase
      /\ journal'.previous = updater[u].tx.previous
      /\ journal'.candidate = updater[u].tx.candidate
      /\ intent' = None /\ updater[u].tx \in Transaction
  BY <1>0, <1>2, <1>3, SaveRecords
<1>5. /\ updater' \in [Updaters -> Memory]
      /\ updater'[u].at = to /\ updater'[u].back = updater[u].back
      /\ updater'[u].tx = updater[u].tx
      /\ \A v \in Updaters \ {u} : updater'[v] = updater[v]
  BY <1>0, <1>3, Goes
<1>6. TypeOK'
  BY <1>0, <1>3, <1>4, <1>5 DEF TypeOK, Memory
<1>7. lock = u /\ Holds(u)'
  BY <1>0, <1>3, <1>5 DEF Holds, Before, Switching
<1>8. Goal(u)' = Goal(u)
  BY <1>5 DEF Goal
<1>9. Named(u)'
  <2>1. phase = Recorded(u)'
    BY <1>0, <1>1, <1>2, <1>3, <1>5 DEF Recorded, Remembered, AfterServices, StartOrNot
  <2> QED BY <2>1, <1>4, <1>5 DEF Named
<1>10. Remembered(u)'
  <2>1. updater[u].tx # None
    BY <1>4
  <2>2. to \in {"start", "healthy", "clear"} => pin = Goal(u)
    BY <1>0, <1>1, <1>2, <1>3 DEF Remembered
  <2>3. to = "healthy" => ~updater[u].back
    BY <1>0, <1>1, <1>2, <1>3 DEF Remembered
  <2> QED BY <1>1, <1>2, <1>3, <1>5, <1>8, <1>9, <2>1, <2>2, <2>3 DEF Remembered, Switching
<1>11. Filed'
  <2>1. phase = "healthy" => pin = updater[u].tx.candidate
    BY <1>0, <1>2, <1>3 DEF Remembered, Goal
  <2>2. phase # "waiting"
    BY <1>2
  <2> QED BY <1>3, <1>4, <2>1, <2>2 DEF Filed
<1>12. journal # None \/ updater[u].at = "drained"
  BY <1>0, <1>2, <1>3 DEF Remembered, Named, Switching
<1> QED BY <1>2, <1>3, <1>4, <1>5, <1>6, <1>7, <1>10, <1>11, <1>12, Advances DEF Switching

\* The steps of the switch between two records.
LEMMA SwitchKeeps ==
  ASSUME Consistent, NEW u \in Updaters,
         \/ StopRunner(u) \/ StopGateway(u) \/ BeginInstall(u) \/ Install(u) \/ MovePin(u)
         \/ Start(u) \/ Healthy(u) \/ Clear(u)
  PROVE  Consistent'
<1> USE ReleaseAssumption, NoneAssumption DEF At, disk, services, queue
<1>0. /\ TypeOK /\ Holds(u) /\ Remembered(u) /\ Filed /\ Quiet
      /\ updater \in [Updaters -> Memory] /\ updater[u] \in Memory
  BY DEF Consistent, Journalled, Exclusive, TypeOK, Memory
<1>1. /\ lock = u /\ updater[u].at \in Switching
      /\ updater[u].tx # None /\ Named(u) /\ updater[u].tx \in Transaction
  <2>1. updater[u].at \in Switching
    BY DEF StopRunner, StopGateway, BeginInstall, Install, MovePin, Start, Healthy, Clear, Switching
  <2> QED BY <1>0, <2>1 DEF Holds, Before, Switching, Remembered, Memory
<1>2. Switching \subseteq Places /\ "release" \in Places
  BY DEF Places
<1>3. Goal(u) \in Releases /\ journal # None
  BY <1>1 DEF Goal, Transaction, Named
<1>4. CASE StopRunner(u)
  <2>1. TypeOK' /\ Holds(u)' /\ Remembered(u)' /\ Filed'
    BY <1>0, <1>1, <1>2, <1>3, <1>4, Goes
       DEF StopRunner, TypeOK, Memory, Holds, Before, Remembered, Named, Recorded, Goal, Filed, Switching
  <2> QED BY <1>0, <1>1, <1>2, <1>3, <1>4, <2>1, Goes, Advances DEF StopRunner, Switching
<1>5. CASE StopGateway(u)
  <2>1. TypeOK' /\ Holds(u)' /\ Remembered(u)' /\ Filed'
    BY <1>0, <1>1, <1>2, <1>3, <1>5, Goes
       DEF StopGateway, TypeOK, Memory, Holds, Before, Remembered, Named, Recorded, Goal, Filed, Switching
  <2> QED BY <1>0, <1>1, <1>2, <1>3, <1>5, <2>1, Goes, Advances DEF StopGateway, Switching
<1>6. CASE BeginInstall(u)
  <2>1. TypeOK' /\ Holds(u)' /\ Remembered(u)' /\ Filed'
    BY <1>0, <1>1, <1>2, <1>3, <1>6, Goes
       DEF BeginInstall, TypeOK, Memory, Holds, Before, Remembered, Named, Recorded, Goal, Filed, Switching
  <2> QED BY <1>0, <1>1, <1>2, <1>3, <1>6, <2>1, Goes, Advances DEF BeginInstall, Switching
<1>7. CASE Install(u)
  <2>1. TypeOK' /\ Holds(u)' /\ Remembered(u)' /\ Filed'
    BY <1>0, <1>1, <1>2, <1>3, <1>7, Goes
       DEF Install, TypeOK, Memory, Holds, Before, Remembered, Named, Recorded, Goal, Filed, Switching
  <2> QED BY <1>0, <1>1, <1>2, <1>3, <1>7, <2>1, Goes, Advances DEF Install, Switching
<1>8. CASE MovePin(u)
  <2>1. TypeOK' /\ Holds(u)' /\ Remembered(u)' /\ Filed'
    BY <1>0, <1>1, <1>2, <1>3, <1>8, Goes
       DEF MovePin, TypeOK, Memory, Holds, Before, Remembered, Named, Recorded, Goal, Filed, Switching, StartOrNot, AfterServices
  <2> QED BY <1>0, <1>1, <1>2, <1>3, <1>8, <2>1, Goes, Advances DEF MovePin, StartOrNot, AfterServices, Switching
<1>9. CASE Start(u)
  <2>1. TypeOK' /\ Holds(u)' /\ Remembered(u)' /\ Filed'
    BY <1>0, <1>1, <1>2, <1>3, <1>9, Goes
       DEF Start, TypeOK, Memory, Holds, Before, Remembered, Named, Recorded, Goal, Filed, Switching
  <2> QED BY <1>0, <1>1, <1>2, <1>3, <1>9, <2>1, Goes, Advances DEF Start, Switching
<1>10. CASE Healthy(u)
  <2>1. TypeOK' /\ Holds(u)' /\ Remembered(u)' /\ Filed'
    BY <1>0, <1>1, <1>2, <1>3, <1>10, Goes
       DEF Healthy, TypeOK, Memory, Holds, Before, Remembered, Named, Recorded, Goal, Filed, Switching, AfterServices
  <2> QED BY <1>0, <1>1, <1>2, <1>3, <1>10, <2>1, Goes, Advances DEF Healthy, AfterServices, Switching
<1>11. CASE Clear(u)
  <2>1. TypeOK' /\ Holds(u)' /\ Remembered(u)' /\ Filed'
    BY <1>0, <1>1, <1>2, <1>3, <1>11, Goes
       DEF Clear, TypeOK, Memory, Holds, Before, Remembered, Named, Recorded, Goal, Filed, Switching
  <2> QED BY <1>0, <1>1, <1>2, <1>3, <1>11, <2>1, Goes, Advances DEF Clear
<1> QED BY <1>4, <1>5, <1>6, <1>7, <1>8, <1>9, <1>10, <1>11

\* A switch that fails goes back or leaves the journal, and so does a death.
LEMMA FailureKeeps ==
  ASSUME Consistent, NEW u \in Updaters, Fails(u) \/ Dies(u)
  PROVE  Consistent'
<1> USE ReleaseAssumption, NoneAssumption DEF At, disk, services, queue
<1>0. /\ TypeOK /\ Holds(u) /\ Remembered(u) /\ Filed /\ Quiet
      /\ updater \in [Updaters -> Memory] /\ updater[u] \in Memory
  BY DEF Consistent, Journalled, Exclusive, TypeOK, Memory
<1>1. faults' \in 0..MaxFaults /\ UNCHANGED <<journal, intent, pin, installed, services, queue, head>>
  BY <1>0 DEF Fails, Dies, Fault, TypeOK
<1>2. CASE Ends(u) /\ lock' = IF lock = u THEN None ELSE lock
  <2>1. TypeOK' /\ Holds(u)' /\ Remembered(u)' /\ Filed'
    BY <1>0, <1>1, <1>2, EndsIdle DEF TypeOK, Memory, Idle, Holds, Before, Remembered, Filed, Switching
  <2> QED BY <1>1, <1>2, <2>1, EndsIdle, <1>0, Advances DEF Idle
<1>3. CASE /\ updater[u].at \in Switching \cup {"undo"}
           /\ GoesBack(u, updater[u].tx) /\ lock' = lock
  <2>1. lock = u /\ journal # None /\ updater[u].tx \in Transaction
    BY <1>0, <1>3 DEF Holds, Before, Switching, Remembered, Named, Memory
  <2>2. TypeOK' /\ Holds(u)' /\ Remembered(u)' /\ Filed'
    BY <1>0, <1>1, <1>3, <2>1, GoesBackTo DEF TypeOK, Memory, Holds, Before, Remembered, Filed, Switching
  <2> QED BY <1>1, <1>3, <2>1, <2>2, <1>0, GoesBackTo, Advances
<1>4. CASE Fails(u)
  <2>1. lock = u
    BY <1>0, <1>4 DEF Fails, Holds, Before, Switching
  <2> QED BY <1>2, <1>3, <1>4, <2>1 DEF Fails, GivesUp
<1>5. CASE Dies(u)
  BY <1>2, <1>5 DEF Dies
<1> QED BY <1>4, <1>5

-----------------------------------------------------------------------------
(* A step of the services.                                                 *)

\* Whoever leaves files and updaters alone leaves the journal's part alone.
LEMMA Untouched ==
  ASSUME Journalled, UNCHANGED <<disk, updater>>
  PROVE  Journalled'
BY DEF Journalled, Exclusive, Holds, Before, Filed, Remembered, Named, Recorded, Goal, disk

\* The services keep the types, the files and the updaters.
LEMMA ServicesTypeOK ==
  ASSUME TypeOK, Launching \/ Service \/ PersonStarts \/ PersonStops \/ WatchdogRecovers \/ NewRelease
  PROVE  TypeOK' /\ UNCHANGED <<disk, updater>>
<1> USE ReleaseAssumption DEF TypeOK, disk, services, queue
<1>1. CASE Launching
  BY <1>1 DEF Launching, LaunchRefused, LaunchRunner, LaunchGateway, DaemonStarts
<1>2. CASE Service
  <2>1. CASE Worker
    BY <2>1 DEF Worker, RunnerChecks, RunnerClaims, RunnerRechecks, JobEnds, StartsWork
  <2>2. CASE LauncherRestarts \/ GatewayLeaves
    BY <2>2 DEF LauncherRestarts, DaemonStarts, GatewayLeaves
  <2>3. CASE Request
    BY <2>3 DEF Request
  <2>4. CASE RunnerDies \/ GatewayDies
    BY <2>4 DEF RunnerDies, GatewayDies, Fault
  <2> QED BY <1>2, <2>1, <2>2, <2>3, <2>4 DEF Service
<1>3. CASE PersonStarts
  BY <1>3 DEF PersonStarts, DaemonStarts
<1>4. CASE PersonStops
  BY <1>4 DEF PersonStops
<1>5. CASE WatchdogRecovers
  BY <1>5 DEF WatchdogRecovers, DaemonStarts
<1>6. CASE NewRelease
  BY <1>6 DEF NewRelease, Releases
<1> QED BY <1>1, <1>2, <1>3, <1>4, <1>5, <1>6

\* Work starts only behind the second look at the lock and the journal.
LEMMA ServicesKeep ==
  ASSUME Consistent,
         Launching \/ Service \/ PersonStarts \/ PersonStops \/ WatchdogRecovers \/ NewRelease
  PROVE  Consistent'
<1>1. TypeOK' /\ UNCHANGED <<disk, updater>>
  BY ServicesTypeOK DEF Consistent
<1>2. Journalled'
  BY <1>1, Untouched DEF Consistent
<1>3. Quiet'
  <2> USE <1>1 DEF Consistent, Quiet, TypeOK, disk, services, queue
  <2>1. CASE Launching
    BY <2>1, ReleaseAssumption DEF Launching, LaunchRefused, LaunchRunner, LaunchGateway, DaemonStarts
  <2>2. CASE RunnerRechecks
    <3>1. CASE Paused
      BY <2>2, <3>1 DEF RunnerRechecks, StartsWork
    <3>2. CASE ~Paused
      <4>1. lock = None /\ journal = None
        BY <3>2 DEF Paused
      <4>2. \A u \in Updaters : updater[u].at # "drained"
        BY <4>1, ReleaseAssumption DEF Journalled, Exclusive, Holds, Before
      <4> QED BY <2>2, <3>2, <4>1, <4>2 DEF RunnerRechecks, StartsWork
    <3> QED BY <3>1, <3>2
  <2>3. CASE RunnerChecks \/ RunnerClaims \/ JobEnds
    BY <2>3 DEF RunnerChecks, RunnerClaims, JobEnds
  <2>4. CASE LauncherRestarts \/ GatewayLeaves \/ Request
    BY <2>4, ReleaseAssumption DEF LauncherRestarts, DaemonStarts, GatewayLeaves, Request
  <2>5. CASE RunnerDies \/ GatewayDies
    BY <2>5 DEF RunnerDies, GatewayDies
  <2>6. CASE PersonStarts
    BY <2>6, ReleaseAssumption DEF PersonStarts, DaemonStarts
  <2>7. CASE PersonStops \/ WatchdogRecovers \/ NewRelease
    BY <2>7 DEF PersonStops, WatchdogRecovers, NewRelease
  <2> QED BY <2>1, <2>2, <2>3, <2>4, <2>5, <2>6, <2>7 DEF Service, Worker
<1> QED BY <1>1, <1>2, <1>3 DEF Consistent

-----------------------------------------------------------------------------
(* The theorems.                                                           *)

LEMMA ConsistentIsInductive == Consistent /\ [Next]_vars => Consistent'
<1> SUFFICES ASSUME Consistent, [Next]_vars PROVE Consistent'
    OBVIOUS
<1>1. CASE \E u \in Updaters : Update(u) \/ Recover(u) \/ Step(u) \/ Dies(u)
  <2> PICK u \in Updaters : Update(u) \/ Recover(u) \/ Step(u) \/ Dies(u)
    BY <1>1
  <2> QED BY ApproachKeeps, WaitKeeps, SavesKeep, SwitchKeeps, FailureKeeps DEF Step
<1>2. CASE Launching \/ Service \/ PersonStarts \/ PersonStops \/ WatchdogRecovers \/ NewRelease
  BY <1>2, ServicesKeep
<1>3. CASE UNCHANGED vars
  <2>1. TypeOK'
    BY <1>3 DEF Consistent, TypeOK, vars, disk, services, queue
  <2> QED BY <1>3, <2>1, Untouched DEF Consistent, Quiet, vars, disk, services, queue
<1> QED BY <1>1, <1>2, <1>3 DEF Next

LEMMA AlwaysConsistent == Spec => []Consistent
<1> QED BY InitConsistent, ConsistentIsInductive, PTL DEF Spec

\* The variables keep their types: an updater that records a phase always has
\* the transaction it records (save in independent-update.ts).
THEOREM TypeCorrect == Spec => []TypeOK
<1>1. Consistent => TypeOK
  BY DEF Consistent
<1> QED BY <1>1, AlwaysConsistent, PTL

\* No updater stops a runner in the middle of a job, for any number of updaters
\* and releases and wherever they die (waitForRunningJobs and shouldPause).
THEOREM NoWorkCutOffHolds == Spec => NoWorkCutOff
<1>1. ASSUME Consistent, NEW u \in Updaters, [Next]_vars,
             \/ At(u, "stop") /\ updater'[u].at = "bridge"
             \/ At(u, "start") /\ updater'[u].at = "health"
      PROVE  worker # "working"
  BY <1>1 DEF Consistent, Journalled, Remembered, Named, Switching, Quiet, At
<1>2. Consistent /\ [Next]_vars =>
        [\A u \in Updaters :
           (At(u, "stop") /\ updater'[u].at = "bridge") \/ (At(u, "start") /\ updater'[u].at = "health")
             => worker # "working"]_vars
  BY <1>1
<1> QED BY <1>2, AlwaysConsistent, PTL DEF Spec, NoWorkCutOff

\* Two steps remove a journal.
LEMMA OnlyTheseClear ==
  ASSUME Consistent, [Next]_vars, journal # None, journal' = None
  PROVE  \E u \in Updaters : FindSettled(u) \/ Clear(u)
<1>1. journal' # journal
  OBVIOUS
<1>2. PICK u \in Updaters : Update(u) \/ Recover(u) \/ Step(u) \/ Dies(u)
  <2>1. ASSUME Launching \/ Service \/ PersonStarts \/ PersonStops \/ WatchdogRecovers \/ NewRelease
        PROVE  FALSE
    BY <1>1, <2>1, ServicesTypeOK DEF Consistent, disk
  <2> QED BY <1>1, <2>1 DEF Next, vars, disk
<1>3. ~(Saves(u) \/ Undo(u))
  BY SavesKeep
<1>4. CASE Update(u) \/ Recover(u) \/ Dies(u) \/ LookFirst(u) \/ Acquire(u) \/ Release(u)
  BY <1>1, <1>4 DEF Update, Recover, Dies, LookFirst, Acquire, Release, disk
<1>5. CASE Find(u) \/ Observe(u) \/ Drain(u)
  BY <1>1, <1>5 DEF Find, FindNothing, FindIntent, FindUnfinished, Observe,
                    Drain, Drained, DrainRecovers, DrainGivesUp, disk
<1>6. CASE \/ StopRunner(u) \/ StopGateway(u) \/ BeginInstall(u) \/ Install(u) \/ MovePin(u)
           \/ Start(u) \/ Healthy(u) \/ Clear(u) \/ Fails(u)
  BY <1>1, <1>6 DEF StopRunner, StopGateway, BeginInstall, Install, MovePin, Start, Healthy, Fails, disk
<1> QED BY <1>2, <1>3, <1>4, <1>5, <1>6 DEF Step

\* A journal goes only with its switch decided, whoever removes it and however
\* often updaters died before (activateRelease and recover).
THEOREM SwitchIsDecidedHolds == Spec => SwitchIsDecided
<1> DEFINE Decided == journal # None /\ journal' = None =>
             pin = IF journal.phase = "healthy" THEN journal.candidate ELSE journal.previous
<1>1. ASSUME Consistent, [Next]_vars, journal # None, journal' = None
      PROVE  pin = IF journal.phase = "healthy" THEN journal.candidate ELSE journal.previous
  <2>1. PICK u \in Updaters : FindSettled(u) \/ Clear(u)
    BY <1>1, OnlyTheseClear
  <2>2. CASE FindSettled(u)
    BY <1>1, <2>2 DEF Consistent, Journalled, Filed, FindSettled, Settled, Pending
  <2>3. CASE Clear(u)
    BY <1>1, <2>3 DEF Consistent, Journalled, Remembered, Named, Recorded, Goal, Switching, Clear, At
  <2> QED BY <2>1, <2>2, <2>3
<1>2. Consistent /\ [Next]_vars => [Decided]_vars
  BY <1>1
<1> QED BY <1>2, AlwaysConsistent, PTL DEF Spec, SwitchIsDecided

-----------------------------------------------------------------------------
(* The whole switch.                                                       *)

ServedBy(release) == {gateway, runner, launcher} \subseteq {release, None}
Down              == gateway = None /\ runner = None /\ launcher = None

\* A start is on its way only while its switch is open, and a switch that is
\* over, or may be closed by anybody, is whole.
Settles ==
  /\ journal # None /\ journal.down => ~journal.running
  /\ launch # None => journal # None /\ journal.running
  /\ journal = None => installed = pin /\ ServedBy(pin)
  /\ journal # None /\ journal.phase = "healthy" =>
       /\ installed = pin /\ ServedBy(pin) /\ launch = None
       /\ ~journal.running => Down

\* How far the updater has brought the links and the services.
Carried(u) ==
  /\ updater[u].tx # None => (updater[u].tx.down => ~updater[u].tx.running)
  /\ updater[u].at \in Switching \cup {"undo"} =>
       journal.running = updater[u].tx.running /\ journal.down = updater[u].tx.down
  /\ updater[u].at = "start" => updater[u].tx.running
  /\ updater[u].at \in {"pin", "pinned", "start", "health", "healthy", "clear"} => installed = Goal(u)
  /\ updater[u].at \in Switching \ {"stop"} /\ ~updater[u].tx.running =>
       /\ runner = None /\ launcher = None
       /\ updater[u].at # "bridge" => gateway = None
  /\ updater[u].at = "health" =>
       /\ ServedBy(Goal(u)) /\ launch \in {Goal(u), None}
       /\ gateway # None => launch = None
  /\ updater[u].at \in {"healthy", "clear"} => ServedBy(Goal(u)) /\ launch = None

Whole == Settles /\ \A u \in Updaters : Carried(u)

LEMMA InitWhole == Init => Whole
BY ReleaseAssumption DEF Init, Idle, Whole, Settles, Carried, ServedBy, Switching

\* The others wait for the lock, so what the holder changes is not theirs.
LEMMA CarriesOn ==
  ASSUME Consistent, Whole, NEW u \in Updaters,
         \A v \in Updaters \ {u} : updater'[v] = updater[v],
         lock = u \/ UNCHANGED <<journal, pin, installed, services>>,
         Carried(u)', Settles'
  PROVE  Whole'
<1>1. ASSUME NEW v \in Updaters, v # u PROVE Carried(v)'
  <2>1. updater'[v] = updater[v] /\ Carried(v) /\ Holds(v)
    BY <1>1 DEF Whole, Consistent, Journalled, Exclusive
  <2>2. CASE lock = u
    <3>1. updater[v].at \in Before
      BY <1>1, <2>1, <2>2 DEF Holds
    <3> QED BY <2>1, <3>1 DEF Carried, Before, Switching
  <2>3. CASE UNCHANGED <<journal, pin, installed, services>>
    BY <2>1, <2>3 DEF Carried, ServedBy, Goal, services
  <2> QED BY <2>2, <2>3
<1> QED BY <1>1 DEF Whole

\* Up to the first record neither files nor services change.
LEMMA ApproachWhole ==
  ASSUME Consistent, Whole, NEW u \in Updaters,
         Update(u) \/ Recover(u) \/ LookFirst(u) \/ Acquire(u) \/ Release(u)
  PROVE  Whole'
<1>0. TypeOK /\ Settles /\ Carried(u) /\ updater \in [Updaters -> Memory]
  BY DEF Consistent, Whole, TypeOK, Memory
<1>1. UNCHANGED <<journal, pin, installed, services>>
  BY DEF Update, Recover, LookFirst, Acquire, Release, disk
<1>2. Settles'
  BY <1>0, <1>1 DEF Settles, ServedBy, Down, services
<1>3. PICK place \in {"ready", "locking", "locked"} : Go(u, place) \/ Ends(u) \/ Update(u) \/ Recover(u)
  BY DEF LookFirst, Acquire, Release
<1>4. CASE Go(u, place)
  <2>1. place \in Places
    BY DEF Places
  <2>2. Carried(u)'
    BY <1>0, <1>4, <2>1, Goes DEF Carried, Switching
  <2> QED BY <1>0, <1>1, <1>2, <1>4, <2>1, <2>2, Goes, CarriesOn
<1>5. CASE Ends(u) \/ Update(u) \/ Recover(u)
  <2>1. /\ updater'[u].at \in {"off", "ready"} /\ updater'[u].tx = None
        /\ \A v \in Updaters \ {u} : updater'[v] = updater[v]
    <3>1. PICK m : /\ updater' = [updater EXCEPT ![u] = m]
                   /\ m.at \in {"off", "ready"} /\ m.tx = None
      <4>1. CASE Ends(u)
        <5>1. Idle.at = "off" /\ Idle.tx = None
          BY DEF Idle
        <5> QED BY <4>1, <5>1 DEF Ends
      <4>2. CASE Update(u)
        <5> DEFINE m == [Idle EXCEPT !.at = "ready", !.candidate = head]
        <5>1. m.at = "ready" /\ m.tx = None
          BY DEF Idle
        <5> QED BY <4>2, <5>1 DEF Update
      <4>3. CASE Recover(u)
        <5> DEFINE m == [Idle EXCEPT !.at = "ready", !.recovers = TRUE, !.candidate = Pending.candidate]
        <5>1. m.at = "ready" /\ m.tx = None
          BY DEF Idle
        <5> QED BY <4>3, <5>1 DEF Recover
      <4> QED BY <1>5, <4>1, <4>2, <4>3
    <3> QED BY <1>0, <3>1
  <2>2. Carried(u)'
    BY <2>1 DEF Carried, Switching
  <2> QED BY <1>1, <1>2, <2>1, <2>2, CarriesOn
<1> QED BY <1>3, <1>4, <1>5

\* What the holder of the lock finds is whole, or it goes back.
LEMMA WaitWhole ==
  ASSUME Consistent, Whole, NEW u \in Updaters, Find(u) \/ Observe(u) \/ Drain(u)
  PROVE  Whole'
<1> USE ReleaseAssumption, NoneAssumption
<1>0. /\ TypeOK /\ Holds(u) /\ Remembered(u) /\ Filed /\ Settles /\ Carried(u)
      /\ updater \in [Updaters -> Memory] /\ updater[u] \in Memory
  BY DEF Consistent, Journalled, Exclusive, Whole, TypeOK, Memory
<1>1. lock = u
  BY <1>0 DEF Find, FindNothing, FindIntent, FindSettled, FindUnfinished, Observe, At,
              Drain, Drained, DrainRecovers, DrainGivesUp, Holds, Before
<1>2. UNCHANGED <<pin, installed, services>>
  BY DEF Find, FindNothing, FindIntent, FindSettled, FindUnfinished, Observe, disk,
         Drain, Drained, DrainRecovers, DrainGivesUp
<1>3. "observe" \in Places /\ "release" \in Places /\ "drained" \in Places
  BY DEF Places
<1>4. ASSUME NEW place \in {"observe", "release", "drained"}, Go(u, place)
      PROVE  Carried(u)' /\ \A v \in Updaters \ {u} : updater'[v] = updater[v]
  BY <1>0, <1>3, <1>4, Goes DEF Carried, Switching
<1>5. ASSUME UNCHANGED journal PROVE Settles'
  BY <1>0, <1>2, <1>5 DEF Settles, ServedBy, Down, services
<1>6. CASE FindNothing(u) \/ FindIntent(u) \/ Drained(u) \/ DrainGivesUp(u)
  <2>1. UNCHANGED journal /\ \E place \in {"observe", "release", "drained"} : Go(u, place)
    BY <1>6 DEF FindNothing, FindIntent, Drained, DrainGivesUp, disk
  <2> QED BY <1>1, <1>4, <1>5, <2>1, CarriesOn
<1>7. CASE FindSettled(u)
  <2>1. journal # None /\ journal.phase = "healthy" /\ journal' = None
    BY <1>0, <1>7 DEF FindSettled, Pending, Settled, Filed
  <2>2. Settles'
    BY <1>0, <1>2, <2>1 DEF Settles, ServedBy, services
  <2> QED BY <1>1, <1>4, <1>7, <2>2, CarriesOn DEF FindSettled
<1>8. CASE FindUnfinished(u)
  <2>1. /\ journal # None /\ Pending = journal /\ Pending \in Transaction
        /\ UNCHANGED journal /\ GoesBack(u, Pending)
    BY <1>0, <1>8 DEF FindUnfinished, Filed, Pending, TypeOK, disk
  <2>2. Carried(u)'
    BY <1>0, <2>1, GoesBackTo DEF Carried, Settles, Switching
  <2> QED BY <1>0, <1>1, <1>5, <2>1, <2>2, GoesBackTo, CarriesOn
<1>9. CASE Observe(u)
  <2>1. CASE Go(u, "release")
    BY <1>1, <1>4, <1>5, <1>9, <2>1, CarriesOn DEF Observe
  <2>2. CASE pin # updater[u].candidate
    <3> DEFINE t == [phase |-> "waiting", previous |-> pin, candidate |-> updater[u].candidate,
                     running |-> Running, down |-> gateway = None]
               m == [updater[u] EXCEPT !.at = "drain", !.tx = t]
    <3>1. m.at = "drain" /\ m.tx = t
      BY <1>0 DEF Memory
    <3>2. t.down => ~t.running
      BY DEF Running
    <3>3. updater' = [updater EXCEPT ![u] = m] /\ UNCHANGED journal
      BY <1>9, <2>2 DEF Observe
    <3> HIDE DEF t, m
    <3>4. updater'[u] = m /\ \A v \in Updaters \ {u} : updater'[v] = updater[v]
      BY <1>0, <3>3
    <3>5. Carried(u)'
      BY <3>1, <3>2, <3>4 DEF Carried, Switching
    <3> QED BY <1>1, <1>5, <3>3, <3>4, <3>5, CarriesOn
  <2> QED BY <1>9, <2>1, <2>2 DEF Observe
<1>10. CASE DrainRecovers(u)
  <2>1. Carried(u)' /\ UNCHANGED <<journal, updater>>
    BY <1>0, <1>10 DEF DrainRecovers, Carried, ServedBy, Goal, disk, services
  <2> QED BY <1>1, <1>5, <2>1, CarriesOn
<1> QED BY <1>6, <1>7, <1>8, <1>9, <1>10 DEF Find, Drain

\* A record keeps what it says about the services.
LEMMA SavesWhole ==
  ASSUME Consistent, Whole, NEW u \in Updaters, Saves(u) \/ Undo(u)
  PROVE  Whole'
<1> USE ReleaseAssumption, NoneAssumption
<1>0. /\ TypeOK /\ Holds(u) /\ Remembered(u) /\ Filed /\ Settles /\ Carried(u)
      /\ updater \in [Updaters -> Memory] /\ updater[u] \in Memory
  BY DEF Consistent, Journalled, Exclusive, Whole, TypeOK, Memory
<1>1. StartOrNot(u) \in {"start", "clear", "healthy"}
  BY DEF StartOrNot, AfterServices
<1>2. PICK from \in Switching \cup {"drained", "undo"}, phase \in Phases, to \in Switching :
        /\ Save(u, from, phase, to)
        /\ <<from, phase, to>> \in
             { <<"drained", "prepared", "stop">>, <<"stopped", "stopped", "install">>,
               <<"pinned", "activated", StartOrNot(u)>>, <<"healthy", "healthy", "clear">>,
               <<"undo", "rolling-back", "stop">> }
  BY <1>1 DEF Saves, Undo, Switching, Phases
<1>3. /\ updater[u].at = from /\ Go(u, to) /\ to \in Places
      /\ UNCHANGED <<pin, installed, lock, services>>
  BY <1>2 DEF Save, At, Places
<1>4. /\ journal' \in Transaction /\ journal' # None /\ journal'.phase = phase
      /\ journal'.running = updater[u].tx.running /\ journal'.down = updater[u].tx.down
      /\ updater[u].tx # None
  <2>1. updater[u].tx # None
    BY <1>0, <1>3 DEF Remembered
  <2> QED BY <1>0, <1>2, <1>3, <2>1, SaveRecords
<1>5. /\ updater'[u].at = to /\ updater'[u].back = updater[u].back
      /\ updater'[u].tx = updater[u].tx
      /\ \A v \in Updaters \ {u} : updater'[v] = updater[v]
  BY <1>0, <1>3, Goes
<1>6. lock = u
  BY <1>0, <1>3 DEF Holds, Before, Switching
<1>7. launch # None => journal # None /\ journal.running = updater[u].tx.running
  BY <1>0, <1>3 DEF Settles, Carried, Remembered
<1>8. from = "pinned" /\ ~updater[u].tx.running => to = "healthy" /\ ~updater[u].back
  BY <1>0, <1>1, <1>2, <1>3 DEF Remembered, StartOrNot, AfterServices
<1>9. Goal(u)' = Goal(u)
  BY <1>5 DEF Goal
<1>10. Carried(u)'
  <2>1. updater[u].tx.down => ~updater[u].tx.running
    BY <1>0, <1>4 DEF Carried
  <2>2. to = "start" => updater[u].tx.running
    BY <1>1, <1>2, <1>3, <1>8
  <2>3. to \in {"start", "healthy", "clear"} => installed = Goal(u)
    BY <1>0, <1>1, <1>2, <1>3 DEF Carried
  <2>4. to # "stop" /\ ~updater[u].tx.running => Down
    BY <1>0, <1>1, <1>2, <1>3 DEF Carried, Down, Switching
  <2>5. to \in {"healthy", "clear"} => ServedBy(Goal(u)) /\ launch = None
    <3>1. CASE from = "pinned"
      <4>1. to = "healthy" => ~updater[u].tx.running
        BY <1>0, <1>2, <1>3, <3>1 DEF Remembered, StartOrNot, AfterServices
      <4>2. to = "clear" => FALSE
        BY <1>0, <1>2, <1>3, <3>1 DEF Remembered, StartOrNot, AfterServices
      <4> QED BY <1>0, <1>7, <2>4, <4>1, <4>2 DEF Settles, ServedBy, Down
    <3>2. CASE from # "pinned"
      BY <1>0, <1>2, <1>3, <3>2 DEF Carried
    <3> QED BY <3>1, <3>2
  <2> HIDE DEF Goal
  <2> QED BY <1>1, <1>2, <1>3, <1>4, <1>5, <1>9, <2>1, <2>2, <2>3, <2>4, <2>5
          DEF Carried, ServedBy, Down, Switching, services
<1>11. Settles'
  <2>1. phase = "healthy" => /\ installed = pin /\ ServedBy(pin) /\ launch = None
                             /\ ~updater[u].tx.running => Down
    BY <1>0, <1>1, <1>2, <1>3 DEF Carried, Remembered, Down, Switching
  <2>2. updater[u].tx.down => ~updater[u].tx.running
    BY <1>0, <1>4 DEF Carried
  <2>3. launch # None => updater[u].tx.running
    BY <1>0, <1>7 DEF Settles
  <2> QED BY <1>3, <1>4, <2>1, <2>2, <2>3 DEF Settles, ServedBy, Down, services
<1> QED BY <1>5, <1>6, <1>10, <1>11, CarriesOn

\* The steps of the switch between two records.
LEMMA SwitchWhole ==
  ASSUME Consistent, Whole, NEW u \in Updaters,
         \/ StopRunner(u) \/ StopGateway(u) \/ BeginInstall(u) \/ Install(u) \/ MovePin(u)
         \/ Start(u) \/ Healthy(u) \/ Clear(u)
  PROVE  Whole'
<1> USE ReleaseAssumption, NoneAssumption
<1>0. /\ TypeOK /\ Holds(u) /\ Remembered(u) /\ Filed /\ Settles /\ Carried(u)
      /\ updater \in [Updaters -> Memory] /\ updater[u] \in Memory
  BY DEF Consistent, Journalled, Exclusive, Whole, TypeOK, Memory
<1>1. /\ lock = u /\ updater[u].at \in Switching
      /\ updater[u].tx # None /\ Named(u) /\ updater[u].tx \in Transaction
  <2>1. updater[u].at \in Switching
    BY DEF StopRunner, StopGateway, BeginInstall, Install, MovePin, Start, Healthy, Clear, At, Switching
  <2> QED BY <1>0, <2>1 DEF Holds, Before, Switching, Remembered, Memory
<1>2. Switching \subseteq Places /\ "release" \in Places
  BY DEF Places
<1>3. Goal(u) \in Releases /\ journal # None
  BY <1>1 DEF Goal, Transaction, Named
<1>4. CASE StopRunner(u)
  <2>1. Carried(u)' /\ Settles'
    BY <1>0, <1>1, <1>2, <1>3, <1>4, Goes
       DEF StopRunner, At, Carried, Settles, ServedBy, Down, Remembered, Recorded, Named, Goal, Switching,
           disk, services
  <2> QED BY <1>0, <1>1, <1>2, <1>4, <2>1, Goes, CarriesOn DEF StopRunner, Switching
<1>5. CASE StopGateway(u)
  <2>1. Carried(u)' /\ Settles'
    BY <1>0, <1>1, <1>2, <1>3, <1>5, Goes
       DEF StopGateway, At, Carried, Settles, ServedBy, Down, Remembered, Recorded, Named, Goal, Switching,
           disk, services
  <2> QED BY <1>0, <1>1, <1>2, <1>5, <2>1, Goes, CarriesOn DEF StopGateway, Switching
<1>6. CASE BeginInstall(u)
  <2>1. Carried(u)' /\ Settles'
    BY <1>0, <1>1, <1>2, <1>3, <1>6, Goes
       DEF BeginInstall, At, Carried, Settles, ServedBy, Down, Remembered, Recorded, Named, Goal, Switching,
           disk, services
  <2> QED BY <1>0, <1>1, <1>2, <1>6, <2>1, Goes, CarriesOn DEF BeginInstall, Switching
<1>7. CASE Install(u)
  <2>1. Carried(u)' /\ Settles'
    BY <1>0, <1>1, <1>2, <1>3, <1>7, Goes
       DEF Install, At, Carried, Settles, ServedBy, Down, Remembered, Recorded, Named, Goal, Switching,
           disk, services
  <2> QED BY <1>0, <1>1, <1>2, <1>7, <2>1, Goes, CarriesOn DEF Install, Switching
<1>8. CASE MovePin(u)
  <2>1. Carried(u)' /\ Settles'
    BY <1>0, <1>1, <1>2, <1>3, <1>8, Goes
       DEF MovePin, At, Carried, Settles, ServedBy, Down, Remembered, Recorded, Named, Goal, Switching,
           disk, services, StartOrNot, AfterServices
  <2> QED BY <1>0, <1>1, <1>2, <1>8, <2>1, Goes, CarriesOn DEF MovePin, Switching, StartOrNot, AfterServices
<1>9. CASE Start(u)
  <2>1. Carried(u)' /\ Settles'
    BY <1>0, <1>1, <1>2, <1>3, <1>9, Goes
       DEF Start, At, Carried, Settles, ServedBy, Down, Remembered, Recorded, Named, Goal, Switching,
           disk, services
  <2> QED BY <1>0, <1>1, <1>2, <1>9, <2>1, Goes, CarriesOn DEF Start, Switching
<1>10. CASE Healthy(u)
  <2>1. Carried(u)' /\ Settles'
    <3>1. /\ updater[u].at = "health" /\ updater'[u].at \in {"clear", "healthy"}
          /\ updater'[u].tx = updater[u].tx /\ updater'[u].back = updater[u].back
          /\ gateway = Goal(u) /\ Up
          /\ UNCHANGED <<disk, services>>
      <4>1. AfterServices(u) \in {"clear", "healthy"} /\ AfterServices(u) \in Places
        BY DEF AfterServices, Places, Switching
      <4>2. Go(u, AfterServices(u))
        BY <1>10 DEF Healthy
      <4>3. updater' = [updater EXCEPT ![u].at = AfterServices(u)]
        BY <4>2 DEF Go
      <4> QED BY <1>0, <1>10, <4>1, <4>3 DEF Healthy, At, Memory
    <3>2. Settles'
      <4>1. /\ journal' = journal /\ installed' = installed /\ pin' = pin /\ launch' = launch
            /\ gateway' = gateway /\ runner' = runner /\ launcher' = launcher
        BY <3>1 DEF disk, services
      <4> QED BY <1>0, <4>1 DEF Settles, ServedBy, Down
    <3>3. Carried(u)'
      BY <1>0, <1>1, <1>2, <1>3, <3>1
         DEF Carried, Settles, ServedBy, Down, Remembered, Recorded, Named, Goal, Switching, disk,
             services, Up
    <3> QED BY <3>2, <3>3
  <2> QED BY <1>0, <1>1, <1>2, <1>10, <2>1, Goes, CarriesOn DEF Healthy, Switching, AfterServices, Up
<1>11. CASE Clear(u)
  <2>1. Carried(u)' /\ Settles'
    BY <1>0, <1>1, <1>2, <1>3, <1>11, Goes
       DEF Clear, At, Carried, Settles, ServedBy, Down, Remembered, Recorded, Named, Goal, Switching,
           disk, services
  <2> QED BY <1>0, <1>1, <1>2, <1>11, <2>1, Goes, CarriesOn DEF Clear, Switching
<1> QED BY <1>4, <1>5, <1>6, <1>7, <1>8, <1>9, <1>10, <1>11

\* A failure leaves files and services as they are.
LEMMA FailureWhole ==
  ASSUME Consistent, Whole, NEW u \in Updaters, Fails(u) \/ Dies(u)
  PROVE  Whole'
<1> USE ReleaseAssumption, NoneAssumption
<1>0. /\ TypeOK /\ Holds(u) /\ Remembered(u) /\ Settles /\ Carried(u)
      /\ updater \in [Updaters -> Memory] /\ updater[u] \in Memory
  BY DEF Consistent, Journalled, Exclusive, Whole, TypeOK, Memory
<1>1. UNCHANGED <<journal, pin, installed, services>>
  BY DEF Fails, Dies
<1>2. Settles'
  BY <1>0, <1>1 DEF Settles, ServedBy, Down, services
<1>3. CASE Ends(u)
  <2>1. Carried(u)'
    BY <1>0, <1>3, EndsIdle DEF Carried, Idle, Switching
  <2> QED BY <1>0, <1>1, <1>2, <1>3, <2>1, EndsIdle, CarriesOn
<1>4. CASE updater[u].at \in Switching \cup {"undo"} /\ GoesBack(u, updater[u].tx)
  <2>1. updater[u].tx \in Transaction
    BY <1>0, <1>4 DEF Remembered, Memory
  <2>2. Carried(u)'
    BY <1>0, <1>1, <1>4, <2>1, GoesBackTo DEF Carried, Switching
  <2> QED BY <1>0, <1>1, <1>2, <1>4, <2>1, <2>2, GoesBackTo, CarriesOn
<1> QED BY <1>3, <1>4 DEF Fails, Dies, GivesUp, At

\* Services start only what the open switch, its launcher or the pin names.
LEMMA ServicesWhole ==
  ASSUME Consistent, Whole,
         Launching \/ Service \/ PersonStarts \/ PersonStops \/ WatchdogRecovers \/ NewRelease
  PROVE  Whole'
<1> USE ReleaseAssumption, NoneAssumption
<1>1. UNCHANGED <<disk, updater>>
  BY ServicesTypeOK DEF Consistent
<1>2. UNCHANGED <<journal, pin, installed>> /\ Settles
  BY <1>1 DEF disk, Whole
<1>3. pin \in Releases /\ pin # None
  BY DEF Consistent, TypeOK
<1>4. ASSUME NEW u \in Updaters
      PROVE  /\ Carried(u) /\ UNCHANGED updater
             /\ updater[u].at \in Switching =>
                  journal # None /\ journal.running = updater[u].tx.running
             /\ Goal(u)' = Goal(u)
             /\ updater[u].at = "health" => Goal(u) \in Releases
  <2>1. Carried(u) /\ Remembered(u) /\ updater[u] \in Memory
    BY DEF Whole, Consistent, Journalled, TypeOK, Memory
  <2> QED BY <1>1, <2>1 DEF Carried, Remembered, Named, Goal, Switching, Memory, Transaction
<1>5. CASE PersonStarts \/ PersonStops \/ WatchdogRecovers
  <2>1. journal = None /\ launch = None /\ UNCHANGED launch
    BY <1>2, <1>5 DEF PersonStarts, PersonStops, WatchdogRecovers, Settles
  <2>2. ServedBy(pin)'
    BY <1>2, <1>5 DEF PersonStarts, PersonStops, WatchdogRecovers, DaemonStarts, ServedBy
  <2>3. Settles'
    BY <1>2, <2>1, <2>2 DEF Settles
  <2>4. ASSUME NEW u \in Updaters PROVE Carried(u)'
    <3>1. updater[u].at \notin Switching
      BY <1>4, <2>1
    <3> QED BY <1>2, <1>4, <3>1 DEF Carried, Switching
  <2> QED BY <2>3, <2>4 DEF Whole
<1>6. CASE LaunchRefused \/ LaunchRunner \/ LaunchGateway
  <2>1. launch # None /\ journal # None /\ journal.running /\ journal.phase # "healthy"
    BY <1>2, <1>6 DEF LaunchRefused, LaunchRunner, LaunchGateway, Settles
  <2>2. launch' \in {launch, None}
    BY <1>6 DEF LaunchRefused, LaunchRunner, LaunchGateway
  <2>3. Settles'
    BY <1>2, <2>1, <2>2 DEF Settles
  <2>4. ASSUME NEW u \in Updaters PROVE Carried(u)'
    BY <1>2, <1>3, <1>4, <1>6, <2>1
       DEF LaunchRefused, LaunchRunner, LaunchGateway, DaemonStarts, Carried, ServedBy, Switching
  <2> QED BY <2>3, <2>4 DEF Whole
<1>7. CASE LauncherRestarts \/ RunnerDies \/ GatewayDies \/ GatewayLeaves
  <2>1. /\ UNCHANGED <<launch, launcher>>
        /\ gateway' \in {gateway, None} /\ runner' \in {runner, launcher, None}
    BY <1>7 DEF LauncherRestarts, RunnerDies, GatewayDies, GatewayLeaves, DaemonStarts
  <2>2. Settles'
    BY <1>2, <2>1 DEF Settles, ServedBy, Down
  <2>3. ASSUME NEW u \in Updaters PROVE Carried(u)'
    BY <1>2, <1>4, <2>1 DEF Carried, ServedBy, Switching
  <2> QED BY <2>2, <2>3 DEF Whole
<1>8. CASE Worker \/ Request \/ NewRelease
  <2>1. UNCHANGED <<gateway, runner, launcher, launch>>
    BY <1>8 DEF Worker, RunnerChecks, RunnerClaims, RunnerRechecks, JobEnds, Request, NewRelease, services
  <2>2. Settles'
    BY <1>2, <2>1 DEF Settles, ServedBy, Down
  <2>3. ASSUME NEW u \in Updaters PROVE Carried(u)'
    BY <1>2, <1>4, <2>1 DEF Carried, ServedBy, Switching
  <2> QED BY <2>2, <2>3 DEF Whole
<1> QED BY <1>5, <1>6, <1>7, <1>8 DEF Launching, Service

LEMMA WholeIsInductive == Consistent /\ Whole /\ [Next]_vars => Whole'
<1> SUFFICES ASSUME Consistent, Whole, [Next]_vars PROVE Whole'
    OBVIOUS
<1>1. CASE \E u \in Updaters : Update(u) \/ Recover(u) \/ Step(u) \/ Dies(u)
  <2> PICK u \in Updaters : Update(u) \/ Recover(u) \/ Step(u) \/ Dies(u)
    BY <1>1
  <2> QED BY ApproachWhole, WaitWhole, SavesWhole, SwitchWhole, FailureWhole DEF Step
<1>2. CASE Launching \/ Service \/ PersonStarts \/ PersonStops \/ WatchdogRecovers \/ NewRelease
  BY <1>2, ServicesWhole
<1>3. CASE UNCHANGED vars
  BY <1>3 DEF Whole, Settles, Carried, ServedBy, Down, Goal, vars, disk, services
<1> QED BY <1>1, <1>2, <1>3 DEF Next

LEMMA AlwaysWhole == Spec => []Whole
<1> QED BY InitConsistent, ConsistentIsInductive, InitWhole, WholeIsInductive, PTL DEF Spec

\* Once the journal is gone links, pin and whatever runs are of one release, for
\* any number of updaters, wherever they died and whatever they had started.
THEOREM SwitchIsWholeHolds == Spec => []SwitchIsWhole
<1>1. Whole => SwitchIsWhole
  BY DEF Whole, Settles, ServedBy, SwitchIsWhole
<1> QED BY <1>1, AlwaysWhole, PTL

\* An app that was down when its switch was recorded is down when it is over:
\* the journal carries hooks.observe's answer from updater to updater.
THEOREM StoppedStaysStoppedHolds == Spec => StoppedStaysStopped
<1> DEFINE Stays == journal # None /\ journal' = None /\ journal.down =>
                      {gateway, runner, launcher} = {None}
<1>1. ASSUME Consistent, Whole, [Next]_vars, journal # None, journal' = None, journal.down
      PROVE  Down
  <2>1. PICK u \in Updaters : FindSettled(u) \/ Clear(u)
    BY <1>1, OnlyTheseClear
  <2>2. ~journal.running
    BY <1>1 DEF Whole, Settles
  <2>3. CASE FindSettled(u)
    BY <1>1, <2>2, <2>3 DEF FindSettled, Pending, Settled, Whole, Settles
  <2>4. CASE Clear(u)
    BY <1>1, <2>2, <2>4 DEF Clear, At, Whole, Carried, Down, Switching
  <2> QED BY <2>1, <2>3, <2>4
<1>2. Consistent /\ Whole /\ [Next]_vars => [Stays]_vars
  BY <1>1 DEF Down
<1> QED BY <1>2, AlwaysConsistent, AlwaysWhole, PTL DEF Spec, StoppedStaysStopped

\* The variables are typed and a finished switch is whole.
THEOREM SafetyHolds == Spec => []Safety
  BY TypeCorrect, SwitchIsWholeHolds, PTL DEF Safety

\* A switch ends as it was decided, and leaves a stopped app stopped.
THEOREM DecisionIsKept == Spec => DecisionKept
  BY SwitchIsDecidedHolds, StoppedStaysStoppedHolds DEF DecisionKept
=============================================================================
